---- MODULE Spec2Model ----
(***************************************************************************)
(* The semantic validator of the data-modelling language                   *)
(* (libs/datamodel/core/src/transform/ast_to_dml/validate.rs).             *)
(*                                                                         *)
(* The validator is a pure function from a data model (and an optional     *)
(* datasource) to a bag of diagnostics, run as two passes:                 *)
(*   validate                       (pass 1, before standardisation)       *)
(*   post_standardisation_validate  (pass 2, after standardisation)        *)
(* The state machine below draws the data model and the datasource in Init *)
(* and then walks the two passes loop iteration by loop iteration.         *)
(*                                                                         *)
(* Abstractions:                                                           *)
(*  - a diagnostic is a record of its kind, its message template (with {}  *)
(*    for every interpolated value), the interpolated values in order      *)
(*    (args), the one list that the code joins with ", " (names), and the  *)
(*    kind's context (attribute, model, field); a backquote of a message   *)
(*    is written as an apostrophe;                                         *)
(*  - a span is the AST node it covers (model, field, attribute, index of  *)
(*    the attribute among the model's index attributes), not a byte range; *)
(*  - the AST and the data model describe the same models and fields, so   *)
(*    every AST lookup by name of validate.rs succeeds.                    *)
(***************************************************************************)
EXTENDS Naturals, Sequences, FiniteSets

VARIABLES schema, source, pc, idx, all_errors, result1, result2

vars == <<schema, source, pc, idx, all_errors, result1, result2>>

-----------------------------------------------------------------------------
(* Sequences *)

Range(s) == {s[i] : i \in 1..Len(s)}

Contains(s, x) == \E i \in 1..Len(s) : s[i] = x

RECURSIVE Flatten(_)
Flatten(ss) == IF ss = <<>> THEN <<>> ELSE Head(ss) \o Flatten(Tail(ss))

RECURSIVE MapNames(_)
MapNames(fs) == IF fs = <<>> THEN <<>> ELSE <<Head(fs).name>> \o MapNames(Tail(fs))

(* All sequences without repetition, of length at most n, over the set S. *)
RECURSIVE SeqsUpTo(_, _)
SeqsUpTo(S, n) ==
    IF n = 0 THEN {<<>>}
    ELSE LET shorter == SeqsUpTo(S, n - 1)
             longest == {t \in shorter : Len(t) = n - 1}
         IN  shorter \cup UNION {{Append(s, x) : x \in S \ Range(s)} : s \in longest}

NoRepeat(s) == \A i, j \in 1..Len(s) : i # j => s[i] # s[j]

-----------------------------------------------------------------------------
(* Constants of validate.rs *)

RELATION_ATTRIBUTE_NAME == "relation"

RELATION_ATTRIBUTE_NAME_WITH_AT == "@relation"

PRISMA_FORMAT_HINT == "You can run 'prisma format' to fix this automatically."

-----------------------------------------------------------------------------
(* Spans and diagnostics *)

SpanEmpty == [model |-> "", field |-> "", attr |-> "", n |-> 0]

ModelSpan(m) == [model |-> m, field |-> "", attr |-> "", n |-> 0]

FieldSpan(m, f) == [model |-> m, field |-> f, attr |-> "", n |-> 0]

FieldAttrSpan(m, f, a) == [model |-> m, field |-> f, attr |-> a, n |-> 0]

ModelAttrSpan(m, a, n) == [model |-> m, field |-> "", attr |-> a, n |-> n]

EnumSpan(e) == [model |-> e, field |-> "", attr |-> "enum", n |-> 0]

Diag(kind, msg, args, names, attr, model, field, span) ==
    [kind |-> kind, msg |-> msg, args |-> args, names |-> names,
     attr |-> attr, model |-> model, field |-> field, span |-> span]

new_validation_error(msg, args, names, span) ==
    Diag("Validation", msg, args, names, "", "", "", span)

new_attribute_validation_error(msg, args, attr, span) ==
    Diag("AttributeValidation", msg, args, <<>>, attr, "", "", span)

new_model_validation_error(msg, args, names, model, span) ==
    Diag("ModelValidation", msg, args, names, "", model, "", span)

new_field_validation_error(msg, args, model, field, span) ==
    Diag("FieldValidation", msg, args, <<>>, "", model, field, span)

new_enum_validation_error(msg, args, enum, span) ==
    Diag("EnumValidation", msg, args, <<>>, "", enum, "", span)

new_connector_error(msg, span) ==
    Diag("ConnectorError", msg, <<>>, <<>>, "", "", "", span)

new_multiple_indexes_with_same_name_are_not_supported(index_name, span) ==
    Diag("MultipleIndexesWithSameName", "", <<index_name>>, <<>>, "", "", "", span)

new_scalar_list_fields_are_not_supported(model, field, span) ==
    Diag("ScalarListFieldsNotSupported", "", <<>>, <<>>, "", model, field, span)

(* Diagnostics::has_errors: every diagnostic of the model is an error. *)
has_errors(bag) == bag # <<>>

(* Diagnostics::to_result and the `if has_errors { Err } else { Ok }` tails. *)
to_result(bag) == [ok |-> ~has_errors(bag), bag |-> bag]

NoResult == [ok |-> FALSE, bag |-> <<>>]

-----------------------------------------------------------------------------
(* The data model (dml::Datamodel) as the rules see it.                     *)
(* A field is one record for both kinds:                                    *)
(*   kind "scalar":   name, arity, tpe, is_id, is_unique, default           *)
(*   kind "relation": name, arity, is_ignored and the relation_info         *)
(*                    (to, relname, fields, references)                     *)
(* A model: name, is_ignored, fields, id_fields (the @@id), indices.        *)

ScalarField(name, arity, tpe, is_id, is_unique, default) ==
    [kind |-> "scalar", name |-> name, arity |-> arity, tpe |-> tpe,
     is_id |-> is_id, is_unique |-> is_unique, default |-> default,
     is_ignored |-> FALSE, to |-> "", relname |-> "",
     fields |-> <<>>, references |-> <<>>]

RelationField(name, arity, to, relname, fields, references, is_ignored) ==
    [kind |-> "relation", name |-> name, arity |-> arity,
     tpe |-> [tag |-> "Relation", scalar |-> "", native |-> "", to |-> to, relname |-> relname],
     is_id |-> FALSE, is_unique |-> FALSE, default |-> "",
     is_ignored |-> is_ignored, to |-> to, relname |-> relname,
     fields |-> fields, references |-> references]

Model(name, is_ignored, fields, id_fields, indices) ==
    [name |-> name, is_ignored |-> is_ignored, fields |-> fields,
     id_fields |-> id_fields, indices |-> indices]

(* FieldType::Base(scalar, None), ::NativeType(scalar, native), ::Enum(name) *)
Base(scalar) == [tag |-> "Base", scalar |-> scalar, native |-> "", to |-> "", relname |-> ""]

NativeType(scalar, native) ==
    [tag |-> "NativeType", scalar |-> scalar, native |-> native, to |-> "", relname |-> ""]

EnumType(name) == [tag |-> "Enum", scalar |-> name, native |-> "", to |-> "", relname |-> ""]

is_required(f) == f.arity = "required"

is_optional(f) == f.arity = "optional"

is_list(f) == f.arity = "list"

is_singular(f) == f.arity # "list"

scalar_fields(model) == SelectSeq(model.fields, LAMBDA f : f.kind = "scalar")

relation_fields(model) == SelectSeq(model.fields, LAMBDA f : f.kind = "relation")

(* Option<field>: the sequence of the fields found, cut to the first. *)
First(s) == IF s = <<>> THEN <<>> ELSE <<Head(s)>>

find_field(model, name) == First(SelectSeq(model.fields, LAMBDA f : f.name = name))

find_scalar_field(model, name) ==
    First(SelectSeq(scalar_fields(model), LAMBDA f : f.name = name))

find_relation_field(model, name) ==
    First(SelectSeq(relation_fields(model), LAMBDA f : f.name = name))

find_model(datamodel, name) == First(SelectSeq(datamodel.models, LAMBDA m : m.name = name))

find_enum(datamodel, name) == First(SelectSeq(datamodel.enums, LAMBDA e : e.name = name))

singular_id_fields(model) == SelectSeq(scalar_fields(model), LAMBDA f : f.is_id)

has_single_id_field(model) == Len(singular_id_fields(model)) = 1

is_auto_increment(f) == f.default = "autoincrement()"

auto_increment_fields(model) == SelectSeq(scalar_fields(model), LAMBDA f : is_auto_increment(f))

(* The scalar fields an index or @@id names, in the order it names them. *)
RECURSIVE FieldsNamed(_, _)
FieldsNamed(model, names) ==
    IF names = <<>> THEN <<>>
    ELSE find_scalar_field(model, Head(names)) \o FieldsNamed(model, Tail(names))

AllRequired(fs) == \A i \in 1..Len(fs) : is_required(fs[i])

RECURSIVE IndexCriterias(_, _, _)
IndexCriterias(model, indices, allow_optional) ==
    IF indices = <<>> THEN <<>>
    ELSE LET id == Head(indices)
             fs == FieldsNamed(model, id.fields)
             rest == IndexCriterias(model, Tail(indices), allow_optional)
         IN  IF id.unique /\ (AllRequired(fs) \/ allow_optional)
             THEN <<fs>> \o rest ELSE rest

RECURSIVE Singletons(_)
Singletons(fs) == IF fs = <<>> THEN <<>> ELSE <<<<Head(fs)>>>> \o Singletons(Tail(fs))

(* Model::unique_criterias: the singular id, the @@id, the @unique fields, *)
(* the @@unique indices; a criterion is the sequence of its fields.         *)
unique_criterias(model, allow_optional) ==
    LET ids == singular_id_fields(model)
        first == IF ids # <<>> /\ (allow_optional \/ is_required(Head(ids)))
                 THEN <<<<Head(ids)>>>> ELSE <<>>
        idfs == FieldsNamed(model, model.id_fields)
        second == IF idfs # <<>> THEN <<idfs>> ELSE <<>>
        third == Singletons(SelectSeq(scalar_fields(model),
                     LAMBDA f : f.is_unique /\ (is_required(f) \/ allow_optional)))
        fourth == IndexCriterias(model, model.indices, allow_optional)
    IN  first \o second \o third \o fourth

loose_unique_criterias(model) == unique_criterias(model, TRUE)

strict_unique_criterias_disregarding_unsupported(model) == unique_criterias(model, FALSE)

field_is_indexed(model, name) ==
    \/ \E i \in 1..Len(model.fields) :
          /\ model.fields[i].kind = "scalar" /\ model.fields[i].name = name
          /\ (model.fields[i].is_id \/ model.fields[i].is_unique)
    \/ (model.id_fields # <<>> /\ Head(model.id_fields) = name)
    \/ \E i \in 1..Len(model.indices) :
          model.indices[i].fields # <<>> /\ Head(model.indices[i].fields) = name

(* Datamodel::find_related_field: the first relation field of the related  *)
(* model that carries the same relation name and is not the field itself.  *)
find_related_field(datamodel, from) ==
    LET rm == find_model(datamodel, from.to)
    IN  IF rm = <<>> THEN <<>>
        ELSE First(SelectSeq(relation_fields(Head(rm)),
                 LAMBDA f : f.relname = from.relname
                            /\ (f.to # from.to \/ f.name # from.name)))

(* FieldType::is_compatible_with *)
is_compatible_with(a, b) ==
    IF a.tag = "Base" /\ b.tag = "Base" THEN a.scalar = b.scalar ELSE a = b

-----------------------------------------------------------------------------
(* The datasource (Option<&Datasource>): `present` is Some/None; the other  *)
(* entries are the answers of its combined and active connector.  What a    *)
(* connector's validate_field / validate_model rejects is an input: the set *)
(* of field names and the set of model names it answers Err for.            *)

Datasource(present, caps, native_default, rejected_fields, rejected_models) ==
    [present |-> present, caps |-> caps, native_default |-> native_default,
     rejected_fields |-> rejected_fields, rejected_models |-> rejected_models]

NoSource == Datasource(FALSE, {}, "", {}, {})

(* source.map(|s| s.combined_connector.<cap>()).unwrap_or(false) *)
Supports(src, cap) == src.present /\ cap \in src.caps

(* name.validate(..): the identifier grammar, as a table over the names used *)
InvalidNames == {"", "1st"}

NameIsValid(name) == name \notin InvalidNames

NameError(what, name, span) ==
    IF NameIsValid(name) THEN <<>>
    ELSE <<new_validation_error("The name of a {} must not start with a number.",
                                <<what>>, <<>>, span)>>

(* TypeNameValidator::is_reserved: the closed set, cut to what the models use *)
ReservedNames == {"String", "Int", "Boolean", "PrismaClient"}

is_reserved(name) == name \in ReservedNames

-----------------------------------------------------------------------------
(* Pass 1, rules run once over the whole schema *)

RECURSIVE FieldNameErrors(_, _, _)
FieldNameErrors(what, owner, fs) ==
    IF fs = <<>> THEN <<>>
    ELSE NameError(what, Head(fs).name, FieldSpan(owner, Head(fs).name))
         \o FieldNameErrors(what, owner, Tail(fs))

RECURSIVE ModelNameErrors(_)
ModelNameErrors(ms) ==
    IF ms = <<>> THEN <<>>
    ELSE NameError("Model", Head(ms).name, ModelSpan(Head(ms).name))
         \o FieldNameErrors("Field", Head(ms).name, Head(ms).fields)
         \o ModelNameErrors(Tail(ms))

RECURSIVE EnumNameErrors(_)
EnumNameErrors(es) ==
    IF es = <<>> THEN <<>>
    ELSE NameError("Enum", Head(es).name, EnumSpan(Head(es).name))
         \o FieldNameErrors("Enum Value", Head(es).name,
                            [i \in 1..Len(Head(es).values) |-> [name |-> Head(es).values[i]]])
         \o EnumNameErrors(Tail(es))

validate_names(ast_schema) ==
    to_result(ModelNameErrors(ast_schema.models) \o EnumNameErrors(ast_schema.enums))

(* All (model name, index) pairs in iteration order. *)
RECURSIVE AllIndexes(_)
AllIndexes(ms) ==
    IF ms = <<>> THEN <<>>
    ELSE [i \in 1..Len(Head(ms).indices) |->
             [model |-> Head(ms).name, index |-> Head(ms).indices[i]]]
         \o AllIndexes(Tail(ms))

(* The loop over the indexes: `seen` is the HashSet index_names. *)
RECURSIVE IndexNameErrors(_, _, _)
IndexNameErrors(ixs, seen, supported) ==
    IF ixs = <<>> THEN <<>>
    ELSE LET name == Head(ixs).index.name
         IN  IF name = "" THEN IndexNameErrors(Tail(ixs), seen, supported)
             ELSE (IF name \in seen /\ ~supported
                   THEN <<new_multiple_indexes_with_same_name_are_not_supported(
                              name, ModelAttrSpan(Head(ixs).model, "index", 1))>>
                   ELSE <<>>)
                  \o IndexNameErrors(Tail(ixs), seen \cup {name}, supported)

validate_names_for_indexes(src, datamodel) ==
    to_result(IndexNameErrors(AllIndexes(datamodel.models), {},
                              Supports(src, "multiple_indexes_with_same_name")))

-----------------------------------------------------------------------------
(* Pass 1, rules run per model *)


(* One error for every optional id field of the model. *)
IdFieldArityErrorsOfEveryField(model) ==
    IF model.is_ignored
    THEN <<>>
    ELSE Flatten([i \in 1..Len(scalar_fields(model)) |->
            LET sf == scalar_fields(model)[i]
            IN  IF sf.is_id /\ ~is_required(sf)
                THEN <<new_attribute_validation_error(
                           "Fields that are marked as id must be required.", <<>>, "id",
                           FieldAttrSpan(model.name, sf.name, "id"))>>
                ELSE <<>>])

(* validate(), lines 45-64: the id field that is not required. *)
IdFieldArityErrors(model) ==
    LET sf == First(SelectSeq(scalar_fields(model), LAMBDA f : f.is_id /\ ~is_required(f)))
    IN  IF sf # <<>> /\ ~model.is_ignored
        THEN <<new_attribute_validation_error(
                   "Fields that are marked as id must be required.", <<>>, "id",
                   FieldAttrSpan(model.name, Head(sf).name, "id"))>>
        ELSE <<>>

RECURSIVE CriteriaDescriptions(_)
CriteriaDescriptions(cs) ==
    IF cs = <<>> THEN <<>>
    ELSE <<"- ">> \o MapNames(Head(cs)) \o CriteriaDescriptions(Tail(cs))

(* a_strict_unique_criteria_is_missing whether the model is ignored or not *)
no_strict_unique_criteria(model) ==
    strict_unique_criterias_disregarding_unsupported(model) = <<>>

(* line 430 *)
a_strict_unique_criteria_is_missing(model) ==
    strict_unique_criterias_disregarding_unsupported(model) = <<>> /\ ~model.is_ignored

(* validate_model_has_strict_unique_criteria without the early returns:    *)
(* every error whose condition holds.                                       *)
every_identity_error(model) ==
    (IF Len(singular_id_fields(model)) > 1
     THEN <<new_model_validation_error(
                "At most one field must be marked as the id field with the '@id' attribute.",
                <<>>, <<>>, model.name, ModelSpan(model.name))>>
     ELSE <<>>)
    \o (IF singular_id_fields(model) # <<>> /\ model.id_fields # <<>>
        THEN <<new_model_validation_error(
                   "Each model must have at most one id criteria. You can't have '@id' and '@@id' at the same time.",
                   <<>>, <<>>, model.name, ModelSpan(model.name))>>
        ELSE <<>>)
    \o (IF a_strict_unique_criteria_is_missing(model)
        THEN <<new_model_validation_error(
                   "Each model must have at least one unique criteria that has only required fields. Either mark a single field with '@id', '@unique' or add a multi field criterion with '@@id([])' or '@@unique([])' to the model.{suffix}",
                   <<>>, CriteriaDescriptions(loose_unique_criterias(model)),
                   model.name, ModelSpan(model.name))>>
        ELSE <<>>)

(* Result<(), DatamodelError>: the sequence of at most one error. *)
validate_model_has_strict_unique_criteria(model) ==
    LET has_single_field_id == singular_id_fields(model) # <<>>
        has_multi_field_id == model.id_fields # <<>>
        loose_criterias == loose_unique_criterias(model)
    IN  IF Len(singular_id_fields(model)) > 1
        THEN <<new_model_validation_error(
                   "At most one field must be marked as the id field with the '@id' attribute.",
                   <<>>, <<>>, model.name, ModelSpan(model.name))>>
        ELSE IF has_single_field_id /\ has_multi_field_id
        THEN <<new_model_validation_error(
                   "Each model must have at most one id criteria. You can't have '@id' and '@@id' at the same time.",
                   <<>>, <<>>, model.name, ModelSpan(model.name))>>
        ELSE IF a_strict_unique_criteria_is_missing(model)
        THEN <<new_model_validation_error(
                   "Each model must have at least one unique criteria that has only required fields. Either mark a single field with '@id', '@unique' or add a multi field criterion with '@@id([])' or '@@unique([])' to the model.{suffix}",
                   <<>>, CriteriaDescriptions(loose_criterias),
                   model.name, ModelSpan(model.name))>>
        ELSE <<>>

validate_model_name(model) ==
    IF is_reserved(model.name)
    THEN <<new_model_validation_error(
               "The model name '{}' is invalid. It is a reserved name. Please change it. Read more at https://pris.ly/d/naming-models",
               <<model.name>>, <<>>, model.name, ModelSpan(model.name))>>
    ELSE <<>>

validate_enum_name(dml_enum) ==
    IF is_reserved(dml_enum.name)
    THEN <<new_enum_validation_error(
               "The enum name '{}' is invalid. It is a reserved name. Please change it. Read more at https://www.prisma.io/docs/reference/tools-and-interfaces/prisma-schema/data-model#naming-enums",
               <<dml_enum.name>>, dml_enum.name, EnumSpan(dml_enum.name))>>
    ELSE <<>>

(* same_foreign_model_and_name whatever the models the fields point to *)
same_relation_name(field_a, field_b) == field_a.relname = field_b.relname

(* line 1002: pointing to the same foreign model, with the same name *)
same_foreign_model_and_name(field_a, field_b) ==
    field_a.to = field_b.to /\ field_a.relname = field_b.relname

(* third_field_of_the_relation whatever its name *)
third_self_relation_field(model, field_a, field_b, field_c) ==
    /\ field_a # field_c /\ field_b # field_c
    /\ field_c.to = model.name

(* lines 1041-1043: a third field of the self relation of field_a, field_b *)
third_field_of_the_relation(model, field_a, field_b, field_c) ==
    /\ field_a # field_c /\ field_b # field_c
    /\ field_c.to = model.name
    /\ field_a.relname = field_b.relname
    /\ field_a.relname = field_c.relname

(* The body of the loops of validate_relations_not_ambiguous for one pair  *)
(* (field_a, field_b): the error it returns, if any.                       *)
AmbiguityAt(model, field_a, field_b) ==
    LET rfs == relation_fields(model)
        span == FieldSpan(model.name, field_a.name)
        thirds == SelectSeq(rfs, LAMBDA field_c :
                      third_field_of_the_relation(model, field_a, field_b, field_c))
    IN  IF field_a = field_b THEN <<>>
        ELSE IF field_a.to # model.name /\ field_b.to # model.name
        THEN IF same_foreign_model_and_name(field_a, field_b)
             THEN IF field_a.relname = ""
                  THEN <<new_model_validation_error(
                             "Ambiguous relation detected. The fields '{}' and '{}' in model '{}' both refer to '{}'. Please provide different relation names for them by adding '@relation(<name>).",
                             <<field_a.name, field_b.name, model.name, field_a.to>>,
                             <<>>, model.name, span)>>
                  ELSE <<new_model_validation_error(
                             "Wrongly named relation detected. The fields '{}' and '{}' in model '{}' both use the same relation name. Please provide different relation names for them through '@relation(<name>).",
                             <<field_a.name, field_b.name, model.name>>,
                             <<>>, model.name, span)>>
             ELSE <<>>
        ELSE IF field_a.to = model.name /\ field_b.to = model.name
        THEN IF thirds # <<>>
             THEN IF field_a.relname = ""
                  THEN <<new_model_validation_error(
                             "Unnamed self relation detected. The fields '{}', '{}' and '{}' in model '{}' have no relation name. Please provide a relation name for one of them by adding '@relation(<name>).",
                             <<field_a.name, field_b.name, Head(thirds).name, model.name>>,
                             <<>>, model.name, span)>>
                  ELSE <<new_model_validation_error(
                             "Wrongly named self relation detected. The fields '{}', '{}' and '{}' in model '{}' have the same relation name. At most two relation fields can belong to the same relation and therefore have the same name. Please assign a different relation name to one of them.",
                             <<field_a.name, field_b.name, Head(thirds).name, model.name>>,
                             <<>>, model.name, span)>>
             ELSE IF field_a.relname = "" /\ field_b.relname = ""
             THEN <<new_model_validation_error(
                        "Ambiguous self relation detected. The fields '{}' and '{}' in model '{}' both refer to '{}'. If they are part of the same relation add the same relation name for them with '@relation(<name>)'.",
                        <<field_a.name, field_b.name, model.name, field_a.to>>,
                        <<>>, model.name, span)>>
             ELSE <<>>
        ELSE <<>>

(* validate_relations_not_ambiguous collecting the error of every pair *)
every_ambiguity(model) ==
    LET rfs == relation_fields(model)
        n == Len(rfs)
        at == [k \in 1..(n * n) |->
                  AmbiguityAt(model, rfs[((k - 1) \div n) + 1], rfs[((k - 1) % n) + 1])]
    IN  Flatten(at)

(* The first error of the nested loops, field_a outer, field_b inner. *)
validate_relations_not_ambiguous(model) ==
    LET rfs == relation_fields(model)
        n == Len(rfs)
        at == [k \in 1..(n * n) |->
                  AmbiguityAt(model, rfs[((k - 1) \div n) + 1], rfs[((k - 1) % n) + 1])]
    IN  First(Flatten(at))

RECURSIVE ArityErrors(_, _, _)
ArityErrors(model, fs, supported) ==
    IF fs = <<>> THEN <<>>
    ELSE (IF is_list(Head(fs)) /\ ~supported
          THEN <<new_scalar_list_fields_are_not_supported(
                     model.name, Head(fs).name, FieldSpan(model.name, Head(fs).name))>>
          ELSE <<>>)
         \o ArityErrors(model, Tail(fs), supported)

validate_field_arities(src, model) ==
    to_result(ArityErrors(model, scalar_fields(model), Supports(src, "scalar_lists")))

RECURSIVE JsonErrors(_, _, _)
JsonErrors(model, fs, supported) ==
    IF fs = <<>> THEN <<>>
    ELSE (IF Head(fs).tpe.tag \in {"Base", "NativeType"} /\ Head(fs).tpe.scalar = "Json"
             /\ ~supported
          THEN <<new_field_validation_error(
                     "Field '{}' in model '{}' can't be of type Json. The current connector does not support the Json type.",
                     <<Head(fs).name, model.name>>, model.name, Head(fs).name,
                     FieldSpan(model.name, Head(fs).name))>>
          ELSE <<>>)
         \o JsonErrors(model, Tail(fs), supported)

validate_field_types(src, model) ==
    to_result(JsonErrors(model, scalar_fields(model), Supports(src, "json")))

RECURSIVE ConnectorFieldErrors(_, _, _)
ConnectorFieldErrors(src, model, fs) ==
    IF fs = <<>> THEN <<>>
    ELSE (IF Head(fs).name \in src.rejected_fields
          THEN <<new_connector_error("{connector.validate_field(field)}",
                                     FieldSpan(model.name, Head(fs).name))>>
          ELSE <<>>)
         \o ConnectorFieldErrors(src, model, Tail(fs))

validate_field_connector_specific(src, model) ==
    to_result(IF src.present THEN ConnectorFieldErrors(src, model, model.fields) ELSE <<>>)

validate_model_connector_specific(src, model) ==
    to_result(IF src.present /\ model.name \in src.rejected_models
              THEN <<new_connector_error("{connector.validate_model(model)}",
                                         ModelSpan(model.name))>>
              ELSE <<>>)

(* DefaultValue::Single(PrismaValue::Enum(v)): a default that is neither   *)
(* absent nor the autoincrement() expression is an enum literal.            *)
IsEnumDefault(f) == f.default \notin {"", "autoincrement()"}

RECURSIVE EnumDefaultErrors(_, _, _)
EnumDefaultErrors(data_model, model, fs) ==
    IF fs = <<>> THEN <<>>
    ELSE LET field == Head(fs)
             dml_enum == find_enum(data_model, field.tpe.scalar)
         IN  (IF /\ IsEnumDefault(field)
                 /\ field.tpe.tag = "Enum"
                 /\ dml_enum # <<>>
                 /\ ~Contains(Head(dml_enum).values, field.default)
              THEN <<new_attribute_validation_error(
                         "The defined default value is not a valid value of the enum specified for the field.",
                         <<>>, "default", FieldSpan(model.name, field.name))>>
              ELSE <<>>)
             \o EnumDefaultErrors(data_model, model, Tail(fs))

validate_enum_default_values(data_model, model) ==
    to_result(EnumDefaultErrors(data_model, model, scalar_fields(model)))

RECURSIVE AutoIncrementFieldErrors(_, _, _)
AutoIncrementFieldErrors(src, model, fs) ==
    IF fs = <<>> THEN <<>>
    ELSE LET field == Head(fs)
             span == FieldSpan(model.name, field.name)
         IN  (IF ~field.is_id /\ is_auto_increment(field)
                 /\ ~Supports(src, "non_id_auto_increment")
              THEN <<new_attribute_validation_error(
                         "The 'autoincrement()' default value is used on a non-id field even though the datasource does not support this.",
                         <<>>, "default", span)>>
              ELSE <<>>)
             \o (IF is_auto_increment(field) /\ ~field_is_indexed(model, field.name)
                    /\ ~Supports(src, "non_indexed_auto_increment")
                 THEN <<new_attribute_validation_error(
                            "The 'autoincrement()' default value is used on a non-indexed field even though the datasource does not support this.",
                            <<>>, "default", span)>>
                 ELSE <<>>)
             \o AutoIncrementFieldErrors(src, model, Tail(fs))

validate_auto_increment(src, model) ==
    to_result(
        IF ~src.present THEN <<>>
        ELSE (IF ~Supports(src, "multiple_auto_increment")
                 /\ Len(auto_increment_fields(model)) > 1
              THEN <<new_attribute_validation_error(
                         "The 'autoincrement()' default value is used multiple times on this model even though the underlying datasource only supports one instance per table.",
                         <<>>, "default", ModelSpan(model.name))>>
              ELSE <<>>)
             \o AutoIncrementFieldErrors(src, model, scalar_fields(model)))

(* The filter(..).cloned().collect() of a list of names. *)
FilterNames(names, Keep(_)) == SelectSeq(names, Keep)

(* unknown_fields finding none *)
no_unknown_fields(model, names) == <<>>

(* unknown_fields stopping at the first unknown name *)
unknown_fields_first_only(model, names) ==
    LET unknown == FilterNames(names, LAMBDA b : find_field(model, b) = <<>>)
    IN  IF unknown = <<>> THEN <<>> ELSE <<Head(unknown)>>

(* lines 529-534 and 617-622: the names that are no field of the model *)
unknown_fields(model, names) ==
    FilterNames(names, LAMBDA b : find_field(model, b) = <<>>)

(* referenced_relation_fields finding none *)
no_referenced_relation_fields(model, names) == <<>>

(* lines 536-541 and 624-629: the names that are relation fields of the model *)
referenced_relation_fields(model, names) ==
    FilterNames(names, LAMBDA b : find_relation_field(model, b) # <<>>)

(* at_least_one_underlying_field_is_optional looking at the first name only *)
first_underlying_field_is_optional(model, field) ==
    /\ field.fields # <<>>
    /\ LET f == find_scalar_field(model, Head(field.fields))
       IN  f # <<>> /\ ~is_required(Head(f))

(* lines 543-547 *)
at_least_one_underlying_field_is_optional(model, field) ==
    \E i \in 1..Len(field.fields) :
        LET f == find_scalar_field(model, field.fields[i])
        IN  f # <<>> /\ ~is_required(Head(f))

(* all_underlying_fields_are_optional holding as soon as one field is *)
some_underlying_field_is_optional(model, field) ==
    \E i \in 1..Len(field.fields) :
        LET f == find_scalar_field(model, field.fields[i])
        IN  f # <<>> /\ is_optional(Head(f))

(* lines 549-557 *)
all_underlying_fields_are_optional(model, field) ==
    /\ \A i \in 1..Len(field.fields) :
           LET f == find_scalar_field(model, field.fields[i])
           IN  f # <<>> /\ is_optional(Head(f))
    /\ field.fields # <<>>

RECURSIVE BaseFieldErrors(_, _)
BaseFieldErrors(model, rfs) ==
    IF rfs = <<>> THEN <<>>
    ELSE LET field == Head(rfs)
             span == FieldSpan(model.name, field.name)
         IN  (IF unknown_fields(model, field.fields) # <<>>
              THEN <<new_validation_error(
                         "The argument fields must refer only to existing fields. The following fields do not exist in this model: {}",
                         <<>>, unknown_fields(model, field.fields), span)>>
              ELSE <<>>)
             \o (IF referenced_relation_fields(model, field.fields) # <<>>
                 THEN <<new_validation_error(
                            "The argument fields must refer only to scalar fields. But it is referencing the following relation fields: {}",
                            <<>>, referenced_relation_fields(model, field.fields), span)>>
                 ELSE <<>>)
             \o (IF at_least_one_underlying_field_is_optional(model, field)
                    /\ is_required(field)
                 THEN <<new_validation_error(
                            "The relation field '{}' uses the scalar fields {}. At least one of those fields is optional. Hence the relation field must be optional as well.",
                            <<field.name>>, field.fields, span)>>
                 ELSE <<>>)
             \o (IF all_underlying_fields_are_optional(model, field)
                    /\ is_required(field)
                 THEN <<new_validation_error(
                            "The relation field '{}' uses the scalar fields {}. All those fields are optional. Hence the relation field must be optional as well.",
                            <<field.name>>, field.fields, span)>>
                 ELSE <<>>)
             \o BaseFieldErrors(model, Tail(rfs))

validate_base_fields_for_relation(model) ==
    to_result(BaseFieldErrors(model, relation_fields(model)))

(* Vec::sort of a list of names: byte order, as a table over the names the *)
(* data models use.                                                         *)
NameOrder ==
    <<"", "1st", "Int", "Post", "User", "firstName", "id", "lastName", "nope",
      "other", "postId", "posts", "slug", "user", "userId", "userName", "zilch">>

Rank(name) == CHOOSE i \in 1..Len(NameOrder) : NameOrder[i] = name

RECURSIVE Insert(_, _)
Insert(x, sorted) ==
    IF sorted = <<>> THEN <<x>>
    ELSE IF Rank(x) <= Rank(Head(sorted)) THEN <<x>> \o sorted
    ELSE <<Head(sorted)>> \o Insert(x, Tail(sorted))

RECURSIVE Sort(_)
Sort(names) == IF names = <<>> THEN <<>> ELSE Insert(Head(names), Sort(Tail(names)))

(* STATE_ERROR / unwrap on None: the call aborts.  The abort is recorded as *)
(* a marker in the bag and turned into the aborted outcome by the pass.     *)
Panic == Diag("Panic", "Failed lookup of model, field or optional property during internal processing. This means that the internal representation was mutated incorrectly.",
              <<>>, <<>>, "", "", "", SpanEmpty)

Aborts(bag) == Contains(bag, Panic)

(* as_native_type().or_else(as_base + default_native_type_for_scalar_type) *)
native_type_of(src, tpe) ==
    IF tpe.tag = "NativeType" THEN <<<<tpe.scalar, tpe.native>>>>
    ELSE IF tpe.tag = "Base" THEN <<<<tpe.scalar, src.native_default[tpe.scalar]>>>>
    ELSE <<>>

(* The filter_map over fields.zip(references), lines 631-675. *)
RECURSIVE fields_with_wrong_type(_, _, _, _, _, _)
fields_with_wrong_type(src, model, related_model, field, fields, references) ==
    IF fields = <<>> \/ references = <<>> THEN <<>>
    ELSE LET base_field == find_field(model, Head(fields))
             referenced_field == find_field(related_model, Head(references))
             rest == fields_with_wrong_type(src, model, related_model, field,
                                            Tail(fields), Tail(references))
         IN  IF base_field = <<>> \/ referenced_field = <<>> THEN rest
             ELSE IF is_compatible_with(Head(base_field).tpe, Head(referenced_field).tpe)
             THEN rest
             ELSE IF /\ src.present
                     /\ native_type_of(src, Head(base_field).tpe) # <<>>
                     /\ native_type_of(src, Head(base_field).tpe)
                          = native_type_of(src, Head(referenced_field).tpe)
             THEN rest
             ELSE <<new_attribute_validation_error(
                        "The type of the field '{}' in the model '{}' is not matching the type of the referenced field '{}' in model '{}'.",
                        <<Head(base_field).name, model.name,
                          Head(referenced_field).name, related_model.name>>,
                        RELATION_ATTRIBUTE_NAME, FieldSpan(model.name, field.name))>>
                  \o rest

(* references_unique_criteria comparing the names in the order written *)
references_unique_criteria_in_order(related_model, references) ==
    \E i \in 1..Len(loose_unique_criterias(related_model)) :
        MapNames(loose_unique_criterias(related_model)[i]) = references

(* lines 702-710 *)
references_unique_criteria(related_model, references) ==
    \E i \in 1..Len(loose_unique_criterias(related_model)) :
        Sort(MapNames(loose_unique_criterias(related_model)[i])) = Sort(references)

(* reference_order_correct comparing the names whatever their order *)
reference_names_correct(src, related_model, references) ==
    LET strict_relation_field_order ==
            src.present /\ "relation_fields_in_arbitrary_order" \notin src.caps
    IN  IF strict_relation_field_order /\ Len(references) > 1
        THEN references_unique_criteria(related_model, references)
        ELSE TRUE

(* lines 712-724: zip stops at the shorter of the two lists *)
reference_order_correct(src, related_model, references) ==
    LET strict_relation_field_order ==
            src.present /\ "relation_fields_in_arbitrary_order" \notin src.caps
    IN  IF strict_relation_field_order /\ Len(references) > 1
        THEN \E i \in 1..Len(loose_unique_criterias(related_model)) :
                 LET criteria_fields == MapNames(loose_unique_criterias(related_model)[i])
                 IN  /\ Len(criteria_fields) = Len(references)
                     /\ \A k \in 1..Len(references) :
                            k <= Len(criteria_fields) => criteria_fields[k] = references[k]
        ELSE TRUE

(* is_many_to_many looking at the arity of the field alone *)
is_list_whatever_the_related_field(datamodel, field) == is_list(field)

(* lines 735-741 *)
is_many_to_many(datamodel, field) ==
    LET related == find_related_field(datamodel, field)
    IN  related # <<>> /\ is_list(field) /\ is_list(Head(related))

(* lines 743-746 *)
must_reference_unique_criteria(src) ==
    IF src.present THEN "relations_over_non_unique_criteria" \notin src.caps ELSE TRUE

(* line 695: the condition of the unique-criteria block *)
references_are_checked_without_gate(field, errors) == field.references # <<>>

references_are_checked(field, errors) == field.references # <<>> /\ ~has_errors(errors)

(* line 789: the condition of the type-mismatch errors *)
wrong_type_is_reported_without_gate(wrong_type, errors) == wrong_type # <<>>

wrong_type_is_reported(wrong_type, errors) == wrong_type # <<>> /\ ~has_errors(errors)

(* different_number_of_fields_and_references counting an empty list too *)
different_number_counting_empty(field) == Len(field.fields) # Len(field.references)

(* lines 778-780 *)
different_number_of_fields_and_references(field) ==
    /\ field.fields # <<>>
    /\ field.references # <<>>
    /\ Len(field.fields) # Len(field.references)

(* The body of the loop of validate_referenced_fields_for_relation for one *)
(* relation field: the bag `errors` after it, given the bag before it.     *)
ReferencedFieldErrors(src, datamodel, model, field, errors) ==
    LET span == FieldSpan(model.name, field.name)
        found == find_model(datamodel, field.to)
    IN  IF found = <<>> THEN Append(errors, Panic)
        ELSE
        LET related_model == Head(found)
            unknown == unknown_fields(related_model, field.references)
            relations == referenced_relation_fields(related_model, field.references)
            wrong_type == fields_with_wrong_type(src, model, related_model, field,
                                                 field.fields, field.references)
            e1 == errors
                  \o (IF unknown # <<>>
                      THEN <<new_validation_error(
                                 "The argument 'references' must refer only to existing fields in the related model '{}'. The following fields do not exist in the related model: {}",
                                 <<related_model.name>>, unknown, span)>>
                      ELSE <<>>)
                  \o (IF relations # <<>>
                      THEN <<new_validation_error(
                                 "The argument 'references' must refer only to scalar fields in the related model '{}'. But it is referencing the following relation fields: {}",
                                 <<related_model.name>>, relations, span)>>
                      ELSE <<>>)
            checked == references_are_checked(field, e1)
            referenced == IF Len(field.references) = 1
                          THEN find_scalar_field(related_model, Head(field.references))
                          ELSE <<>>
            lookup_fails == checked /\ Len(field.references) = 1 /\ referenced = <<>>
            references_singular_id_field ==
                IF Len(field.references) = 1 /\ referenced # <<>>
                THEN Head(referenced).is_id ELSE FALSE
            e2 == IF ~checked THEN e1
                  ELSE e1
                       \o (IF ~references_unique_criteria(related_model, field.references)
                              /\ must_reference_unique_criteria(src)
                           THEN <<new_validation_error(
                                      "The argument 'references' must refer to a unique criteria in the related model '{}'. But it is referencing the following fields that are not a unique criteria: {}",
                                      <<related_model.name>>, field.references, span)>>
                           ELSE IF ~reference_order_correct(src, related_model, field.references)
                           THEN <<new_validation_error(
                                      "The argument 'references' must refer to a unique criteria in the related model '{}' using the same order of fields. Please check the ordering in the following fields: '{}'.",
                                      <<related_model.name>>, field.references, span)>>
                           ELSE <<>>)
                       \o (IF /\ is_many_to_many(datamodel, field)
                              /\ ~references_singular_id_field
                              /\ has_single_id_field(related_model)
                           THEN <<new_validation_error(
                                      "Many to many relations must always reference the id field of the related model. Change the argument 'references' to use the id field of the related model '{}'. But it is referencing the following fields that are not the id: {}",
                                      <<related_model.name>>, field.references, span)>>
                           ELSE <<>>)
            e3 == e2
                  \o (IF different_number_of_fields_and_references(field)
                      THEN <<new_attribute_validation_error(
                                 "You must specify the same number of fields in 'fields' and 'references'.",
                                 <<>>, RELATION_ATTRIBUTE_NAME, span)>>
                      ELSE <<>>)
        IN  IF lookup_fails THEN Append(e1, Panic)
            ELSE IF wrong_type_is_reported(wrong_type, e3) THEN e3 \o wrong_type
            ELSE e3

RECURSIVE ReferencedFieldsLoop(_, _, _, _, _)
ReferencedFieldsLoop(src, datamodel, model, rfs, errors) ==
    IF rfs = <<>> \/ Aborts(errors) THEN errors
    ELSE ReferencedFieldsLoop(src, datamodel, model, Tail(rfs),
             ReferencedFieldErrors(src, datamodel, model, Head(rfs), errors))

(* validate_referenced_fields_for_relation with a bag of its own for every *)
(* relation field.                                                          *)
referenced_fields_of_each_field_alone(src, datamodel, model) ==
    to_result(Flatten([i \in 1..Len(relation_fields(model)) |->
        ReferencedFieldErrors(src, datamodel, model, relation_fields(model)[i], <<>>)]))

validate_referenced_fields_for_relation(src, datamodel, model) ==
    to_result(ReferencedFieldsLoop(src, datamodel, model, relation_fields(model), <<>>))

-----------------------------------------------------------------------------
(* Pass 2 *)

(* line 834: the singular side of a one-to-many relation *)
singular_side_of_one_to_many(field, related_field) ==
    is_singular(field) /\ is_list(related_field)

(* arguments_on_the_list_side whatever the arguments *)
list_side_of_one_to_many(field, related_field) ==
    is_list(field) /\ ~is_list(related_field)

(* arguments_on_the_list_side looking at `fields` only *)
fields_on_the_list_side(field, related_field) ==
    /\ is_list(field)
    /\ ~is_list(related_field)
    /\ field.fields # <<>>

(* lines 859-861: the list side of a one-to-many relation carries arguments *)
arguments_on_the_list_side(field, related_field) ==
    /\ is_list(field)
    /\ ~is_list(related_field)
    /\ (field.fields # <<>> \/ field.references # <<>>)

(* one_to_one holding for optional fields only *)
one_to_one_of_optional_fields(field, related_field) ==
    is_singular(field) /\ is_singular(related_field) /\ ~is_required(field)

(* line 874 *)
one_to_one(field, related_field) == is_singular(field) /\ is_singular(related_field)

(* sides_are_compared whatever the bag holds *)
sides_are_always_compared(errors) == TRUE

(* line 919: the condition of the checks across the two sides *)
sides_are_compared(errors) == ~has_errors(errors)

(* required_on_the_virtual_side whichever side holds the arguments *)
required_on_either_side(field, related_field, errors) ==
    ~has_errors(errors) /\ is_required(field)

(* line 943 *)
required_on_the_virtual_side(field, related_field, errors) ==
    /\ ~has_errors(errors)
    /\ is_required(field)
    /\ related_field.references # <<>>

(* many_to_many_without_id whatever the id of the related model *)
many_to_many_whatever_the_id(field, related_field, related_model) ==
    is_list(field) /\ is_list(related_field)

(* line 955 *)
many_to_many_without_id(field, related_field, related_model) ==
    /\ is_list(field)
    /\ is_list(related_field)
    /\ ~has_single_id_field(related_model)

(* missing_opposite_relation_field recording nothing *)
missing_opposite_is_accepted(model, field, related_model, errors) == errors

(* lines 969-981: the else-branch of `if let Some(..) = find_related_field` *)
missing_opposite_relation_field(model, field, related_model, errors) ==
    Append(errors, new_field_validation_error(
        "The relation field '{}' on Model '{}' is missing an opposite relation field on the model '{}'. Either run 'prisma format' or add it manually.",
        <<field.name, model.name, related_model.name>>,
        model.name, field.name, FieldSpan(model.name, field.name)))

(* The body of the loop of validate_relation_arguments_bla for one relation *)
(* field: the bag `errors` after it, given the bag before it.               *)
RelationArgumentErrors(datamodel, model, field, errors) ==
    LET field_span == FieldSpan(model.name, field.name)
        found == find_model(datamodel, field.to)
        related == find_related_field(datamodel, field)
        E(msg, args) ==
            <<new_attribute_validation_error(msg, args, RELATION_ATTRIBUTE_NAME, field_span)>>
    IN  IF found = <<>> THEN Append(errors, Panic)
        ELSE IF related = <<>>
        THEN missing_opposite_relation_field(model, field, Head(found), errors)
        ELSE
        LET related_model == Head(found)
            related_field == Head(related)
            both == <<field.name, model.name, related_field.name, related_model.name,
                      RELATION_ATTRIBUTE_NAME_WITH_AT>>
            sides == <<field.name, model.name, RELATION_ATTRIBUTE_NAME_WITH_AT,
                       related_field.name, related_model.name>>
            e1 == errors
                  \o (IF related_model.is_ignored /\ ~field.is_ignored /\ ~model.is_ignored
                      THEN <<new_attribute_validation_error(
                                 "The relation field '{}' on Model '{}' must specify the '@ignore' attribute, because the model {} it is pointing to is marked ignored.",
                                 <<field.name, model.name, related_model.name>>,
                                 "ignore", field_span)>>
                      ELSE <<>>)
            (* ONE TO MANY *)
            e2 == IF singular_side_of_one_to_many(field, related_field)
                  THEN e1
                       \o (IF field.fields = <<>>
                           THEN E("The relation field '{}' on Model '{}' must specify the 'fields' argument in the {} attribute. {}",
                                  <<field.name, model.name, RELATION_ATTRIBUTE_NAME_WITH_AT,
                                    PRISMA_FORMAT_HINT>>)
                           ELSE <<>>)
                       \o (IF field.references = <<>>
                           THEN E("The relation field '{}' on Model '{}' must specify the 'references' argument in the {} attribute.",
                                  <<field.name, model.name, RELATION_ATTRIBUTE_NAME_WITH_AT>>)
                           ELSE <<>>)
                  ELSE e1
            e3 == e2
                  \o (IF arguments_on_the_list_side(field, related_field)
                      THEN E("The relation field '{}' on Model '{}' must not specify the 'fields' or 'references' argument in the {} attribute. You must only specify it on the opposite field '{}' on model '{}'.",
                             sides)
                      ELSE <<>>)
            (* ONE TO ONE *)
            e4 == e3
                  \o (IF field.fields = <<>> /\ related_field.fields = <<>>
                      THEN E("The relation fields '{}' on Model '{}' and '{}' on Model '{}' do not provide the 'fields' argument in the {} attribute. You have to provide it on one of the two fields.", both)
                      ELSE <<>>)
                  \o (IF field.references = <<>> /\ related_field.references = <<>>
                      THEN E("The relation fields '{}' on Model '{}' and '{}' on Model '{}' do not provide the 'references' argument in the {} attribute. You have to provide it on one of the two fields.", both)
                      ELSE <<>>)
                  \o (IF field.references # <<>> /\ related_field.references # <<>>
                      THEN E("The relation fields '{}' on Model '{}' and '{}' on Model '{}' both provide the 'references' argument in the {} attribute. You have to provide it only on one of the two fields.", both)
                      ELSE <<>>)
                  \o (IF field.fields # <<>> /\ related_field.fields # <<>>
                      THEN E("The relation fields '{}' on Model '{}' and '{}' on Model '{}' both provide the 'fields' argument in the {} attribute. You have to provide it only on one of the two fields.", both)
                      ELSE <<>>)
            e5 == IF ~sides_are_compared(e4) THEN e4
                  ELSE e4
                       \o (IF field.fields # <<>> /\ related_field.references # <<>>
                           THEN E("The relation field '{}' on Model '{}' provides the 'fields' argument in the {} attribute. And the related field '{}' on Model '{}' provides the 'references' argument. You must provide both arguments on the same side.", sides)
                           ELSE <<>>)
                       \o (IF field.references # <<>> /\ related_field.fields # <<>>
                           THEN E("The relation field '{}' on Model '{}' provides the 'references' argument in the {} attribute. And the related field '{}' on Model '{}' provides the 'fields' argument. You must provide both arguments on the same side.", sides)
                           ELSE <<>>)
            e6 == e5
                  \o (IF required_on_the_virtual_side(field, related_field, e5)
                      THEN E("The relation field '{}' on Model '{}' is required. This is no longer valid because it's not possible to enforce this constraint on the database level. Please change the field type from '{}' to '{}?' to fix this.",
                             <<field.name, model.name, related_model.name, related_model.name>>)
                      ELSE <<>>)
            e7 == IF one_to_one(field, related_field) THEN e6 ELSE e3
        IN  (* MANY TO MANY *)
            e7 \o (IF many_to_many_without_id(field, related_field, related_model)
                   THEN <<new_field_validation_error(
                              "The relation field '{}' on Model '{}' references '{}' which does not have an '@id' field. Models without '@id' can not be part of a many to many relation. Use an explicit intermediate Model to represent this relationship.",
                              <<field.name, model.name, related_model.name>>,
                              model.name, field.name, field_span)>>
                   ELSE <<>>)

RECURSIVE RelationArgumentsLoop(_, _, _, _)
RelationArgumentsLoop(datamodel, model, rfs, errors) ==
    IF rfs = <<>> \/ Aborts(errors) THEN errors
    ELSE RelationArgumentsLoop(datamodel, model, Tail(rfs),
             RelationArgumentErrors(datamodel, model, Head(rfs), errors))

(* validate_relation_arguments_bla with a bag of its own for every         *)
(* relation field.                                                          *)
relation_arguments_of_each_field_alone(datamodel, model) ==
    Flatten([i \in 1..Len(relation_fields(model)) |->
        RelationArgumentsLoop(datamodel, model, <<relation_fields(model)[i]>>, <<>>)])

validate_relation_arguments_bla(datamodel, model) ==
    RelationArgumentsLoop(datamodel, model, relation_fields(model), <<>>)

-----------------------------------------------------------------------------
(* The two passes *)

(* `if let Err(ref mut errs) = rule(..) { bag.append(errs) }` *)
Errs(result) == IF result.ok THEN <<>> ELSE result.bag

(* errors_for_model with the result of validate_auto_increment dropped *)
errors_for_model_without_auto_increment(src, datamodel, model) ==
    validate_model_has_strict_unique_criteria(model)
    \o validate_model_name(model)
    \o validate_relations_not_ambiguous(model)
    \o Errs(validate_field_arities(src, model))
    \o Errs(validate_field_types(src, model))
    \o Errs(validate_field_connector_specific(src, model))
    \o Errs(validate_model_connector_specific(src, model))
    \o Errs(validate_enum_default_values(datamodel, model))
    \o Errs(validate_base_fields_for_relation(model))
    \o Errs(validate_referenced_fields_for_relation(src, datamodel, model))

(* validate(), lines 66-130: the bag errors_for_model of one model. *)
errors_for_model(src, datamodel, model) ==
    validate_model_has_strict_unique_criteria(model)
    \o validate_model_name(model)
    \o validate_relations_not_ambiguous(model)
    \o Errs(validate_field_arities(src, model))
    \o Errs(validate_field_types(src, model))
    \o Errs(validate_field_connector_specific(src, model))
    \o Errs(validate_model_connector_specific(src, model))
    \o Errs(validate_enum_default_values(datamodel, model))
    \o Errs(validate_auto_increment(src, model))
    \o Errs(validate_base_fields_for_relation(model))
    \o Errs(validate_referenced_fields_for_relation(src, datamodel, model))

(* ModelIteration with the id-arity error pushed after the model's bag *)
ModelIteration_id_arity_last(src, datamodel, model) ==
    errors_for_model(src, datamodel, model) \o IdFieldArityErrors(model)

(* validate(), lines 41-133: what one iteration of the model loop adds to  *)
(* all_errors.                                                              *)
ModelIteration(src, datamodel, model) ==
    IdFieldArityErrors(model) \o errors_for_model(src, datamodel, model)

RECURSIVE EnumIterations(_)
EnumIterations(es) ==
    IF es = <<>> THEN <<>> ELSE validate_enum_name(Head(es)) \o EnumIterations(Tail(es))

(* post_standardisation_validate(), lines 163-177 *)
PostModelIteration(datamodel, model) ==
    LET errors_for_model_2 == <<>>
    IN  IF ~has_errors(errors_for_model_2)
        THEN errors_for_model_2 \o validate_relation_arguments_bla(datamodel, model)
        ELSE errors_for_model_2

(* validate(), lines 29-153, as a function of the data model: the bag it  *)
(* has collected when it returns.                                           *)
validate(src, datamodel) ==
    Errs(validate_names(datamodel))
    \o Errs(validate_names_for_indexes(src, datamodel))
    \o Flatten([i \in 1..Len(datamodel.models) |->
                    ModelIteration(src, datamodel, datamodel.models[i])])
    \o EnumIterations(datamodel.enums)

(* validate(), lines 30-38: a new bag, then the two schema-wide rules *)
ValidateNames ==
    /\ pc = "validate"
    /\ all_errors' = Errs(validate_names(schema))
                     \o Errs(validate_names_for_indexes(source, schema))
    /\ idx' = 1
    /\ pc' = "models"
    /\ UNCHANGED <<schema, source, result1, result2>>

(* validate(), lines 41-133: one iteration of `for model in schema.models()` *)
ValidateModel ==
    /\ pc = "models"
    /\ idx <= Len(schema.models)
    /\ LET added == ModelIteration(source, schema, schema.models[idx])
       IN  /\ all_errors' = all_errors \o added
           /\ pc' = IF Aborts(added) THEN "aborted" ELSE "models"
    /\ idx' = idx + 1
    /\ UNCHANGED <<schema, source, result1, result2>>

(* validate(), lines 135-152: the enum loop and the result *)
ValidateEnums ==
    /\ pc = "models"
    /\ idx > Len(schema.models)
    /\ result1' = to_result(all_errors \o EnumIterations(schema.enums))
    /\ all_errors' = all_errors \o EnumIterations(schema.enums)
    /\ pc' = "validated"
    /\ UNCHANGED <<schema, source, idx, result2>>

(* post_standardisation_validate(), line 160: a new bag *)
PostStart ==
    /\ pc = "validated"
    /\ all_errors' = <<>>
    /\ idx' = 1
    /\ pc' = "post_models"
    /\ UNCHANGED <<schema, source, result1, result2>>

(* post_standardisation_validate(), lines 163-177: one iteration *)
PostValidateModel ==
    /\ pc = "post_models"
    /\ idx <= Len(schema.models)
    /\ LET added == PostModelIteration(schema, schema.models[idx])
       IN  /\ all_errors' = all_errors \o added
           /\ pc' = IF Aborts(added) THEN "aborted" ELSE "post_models"
    /\ idx' = idx + 1
    /\ UNCHANGED <<schema, source, result1, result2>>

(* post_standardisation_validate(), lines 179-183 *)
PostFinish ==
    /\ pc = "post_models"
    /\ idx > Len(schema.models)
    /\ result2' = to_result(all_errors)
    /\ pc' = "done"
    /\ UNCHANGED <<schema, source, idx, all_errors, result1>>

Next ==
    \/ ValidateNames
    \/ ValidateModel
    \/ ValidateEnums
    \/ PostStart
    \/ PostValidateModel
    \/ PostFinish

StartOn(datamodels, sources) ==
    /\ schema \in datamodels
    /\ source \in sources
    /\ pc = "validate"
    /\ idx = 0
    /\ all_errors = <<>>
    /\ result1 = NoResult
    /\ result2 = NoResult

-----------------------------------------------------------------------------
(* Inputs: datasources *)

NativeDefaults == [Int |-> "Integer", String |-> "Text", Json |-> "Json"]

(* a connector in the manner of MySQL: foreign keys over non-unique         *)
(* criteria, index names scoped to the table, references in index order     *)
MySql ==
    Datasource(TRUE, {"relations_over_non_unique_criteria", "json",
                      "multiple_indexes_with_same_name", "non_id_auto_increment"},
               NativeDefaults, {}, {})

(* a connector in the manner of PostgreSQL *)
Postgres ==
    Datasource(TRUE, {"scalar_lists", "json", "relation_fields_in_arbitrary_order",
                      "multiple_auto_increment", "non_id_auto_increment",
                      "non_indexed_auto_increment"},
               NativeDefaults, {}, {})

(* a connector without any of the capabilities, strict about the order *)
Strict == Datasource(TRUE, {}, NativeDefaults, {}, {})

-----------------------------------------------------------------------------
(* Inputs: the data models of tests/attributes/relations/relations_new.rs,  *)
(* with the relation arguments, arities and types left open.                *)

MaxArgs == 2

Arities == {"required", "optional", "list"}

Id == ScalarField("id", "required", Base("Int"), TRUE, FALSE, "")

Datamodel(models, enums) == [models |-> models, enums |-> enums]

(* User { id, firstName, lastName?, posts Post[], @@unique([firstName,     *)
(* lastName]) } and Post { id, userId, userName, other?, user }: the        *)
(* fixtures of the base-field tests.                                        *)
BaseFieldsModels ==
    { Datamodel(
        << Model("User", FALSE,
                 << Id,
                    ScalarField("firstName", "required", Base("String"), FALSE, FALSE, ""),
                    ScalarField("lastName", "optional", Base("String"), FALSE, FALSE, ""),
                    RelationField("posts", "list", "Post", "", <<>>, <<>>, FALSE) >>,
                 <<>>,
                 << [name |-> "", fields |-> <<"firstName", "lastName">>, unique |-> TRUE] >>),
           Model("Post", FALSE,
                 << Id,
                    ScalarField("userId", a1, Base(t1), FALSE, FALSE, ""),
                    ScalarField("userName", a2, Base("String"), FALSE, FALSE, "") >>
                 \o others
                 \o << RelationField("user", a, "User", "", fs, rs, FALSE) >>,
                 <<>>, <<>>) >>,
        <<>>)
      : a1 \in {"required", "optional"}, t1 \in {"Int", "String"},
        a2 \in Arities,
        others \in {<<>>, <<RelationField("other", "optional", "User", "O",
                                          <<"userId">>, <<"id">>, FALSE)>>},
        a \in Arities,
        fs \in SeqsUpTo({"userId", "userName", "nope", "zilch", "other"}, MaxArgs),
        rs \in {<<>>, <<"id">>, <<"firstName", "lastName">>} }

InitBase == StartOn(BaseFieldsModels, {NoSource, MySql})

SpecBase == InitBase /\ [][Next]_vars

(* User { id, firstName [@unique], posts Post[], [@@unique([firstName,     *)
(* id])] } and Post { id, userId, userName, other?, user }: the fixtures    *)
(* of the referenced-field tests.                                           *)
ReferencedFieldsModels ==
    { Datamodel(
        << Model("User", FALSE,
                 << Id,
                    ScalarField("firstName", "required", Base("String"), FALSE,
                                c = "@unique", ""),
                    RelationField("posts", "list", "Post", "", <<>>, <<>>, FALSE) >>,
                 <<>>,
                 IF c = "@@unique"
                 THEN <<[name |-> "", fields |-> <<"firstName", "id">>, unique |-> TRUE]>>
                 ELSE <<>>),
           Model("Post", FALSE,
                 << Id,
                    ScalarField("userId", "required", t1, FALSE, FALSE, ""),
                    ScalarField("userName", "required", Base("String"), FALSE, FALSE, "") >>
                 \o others
                 \o << RelationField("user", a, "User", "", fs, rs, FALSE) >>,
                 <<>>, <<>>) >>,
        <<>>)
      : c \in {"id only", "@unique", "@@unique"},
        t1 \in {Base("Int"), Base("String"), NativeType("Int", "Integer")},
        others \in {<<>>,
                    <<RelationField("other", "optional", "User", "O",
                                    <<"userId">>, <<"id">>, FALSE)>>,
                    <<RelationField("other", "optional", "User", "O",
                                    <<"userId">>, <<"nope">>, FALSE)>>},
        a \in {"required", "list"},
        fs \in {<<>>, <<"userId">>, <<"userId", "userName">>, <<"other">>},
        rs \in SeqsUpTo({"id", "firstName", "nope", "posts"}, MaxArgs) }

InitRef == StartOn(ReferencedFieldsModels, {NoSource, MySql, Postgres, Strict})

SpecRef == InitRef /\ [][Next]_vars

(* Data models made of a sound one-to-many schema and at most MaxDefects    *)
(* defects, each the violation of one rule in one model (or in the schema). *)
MaxDefects == 2

ModelDefects ==
    {"bad_field_name", "dup_index", "optional_id", "two_ids", "ambiguous",
     "scalar_list", "json", "rejected", "enum_default", "autoinc",
     "unknown_base", "unknown_ref"}

AllDefects ==
    ({"User", "Post"} \X ModelDefects)
    \cup {<<"Post", "optional_base">>, <<"", "reserved_model">>, <<"", "reserved_enum">>}

RECURSIVE SetsUpTo(_, _)
SetsUpTo(S, n) ==
    IF n = 0 THEN {{}}
    ELSE LET smaller == SetsUpTo(S, n - 1)
         IN  smaller \cup UNION {{d \cup {x} : x \in S} : d \in smaller}

DefectFields(m, partner, D) ==
    LET has(k) == <<m, k>> \in D
        opt(k, f) == IF has(k) THEN <<f>> ELSE <<>>
    IN  opt("bad_field_name", ScalarField("1st", "required", Base("String"), FALSE, FALSE, ""))
        \o opt("two_ids", ScalarField("slug", "required", Base("Int"), TRUE, FALSE, ""))
        \o opt("ambiguous", RelationField("other", "optional", partner, "", <<>>, <<>>, FALSE))
        \o opt("scalar_list", ScalarField("tags", "list", Base("String"), FALSE, FALSE, ""))
        \o opt("json", ScalarField("data", "required", Base("Json"), FALSE, FALSE, ""))
        \o opt("rejected", ScalarField("legacy", "required", Base("String"), FALSE, FALSE, ""))
        \o opt("enum_default", ScalarField("role", "required", EnumType("Role"), FALSE, FALSE, "NOPE"))
        \o opt("autoinc", ScalarField("seq", "required", Base("Int"), FALSE, FALSE, "autoincrement()"))
        \o opt("unknown_base", RelationField("rel2", "optional", partner, "R2", <<"nope">>, <<>>, FALSE))
        \o opt("unknown_ref", RelationField("rel3", "optional", partner, "R3", <<>>, <<"nope">>, FALSE))

DefectIndices(m, D) ==
    IF <<m, "dup_index">> \in D
    THEN << [name |-> "ix", fields |-> <<"id">>, unique |-> FALSE],
            [name |-> "ix", fields |-> <<"id">>, unique |-> FALSE] >>
    ELSE <<>>

DefectId(m, D) ==
    ScalarField("id", IF <<m, "optional_id">> \in D THEN "optional" ELSE "required",
                Base("Int"), TRUE, FALSE, "")

DefectModel(D) ==
    Datamodel(
        << Model("User", FALSE,
                 << DefectId("User", D),
                    ScalarField("firstName", "required", Base("String"), FALSE, FALSE, ""),
                    RelationField("posts", "list", "Post", "", <<>>, <<>>, FALSE) >>
                 \o DefectFields("User", "Post", D),
                 <<>>, DefectIndices("User", D)),
           Model("Post", FALSE,
                 << DefectId("Post", D),
                    ScalarField("userId",
                                IF <<"Post", "optional_base">> \in D THEN "optional"
                                                                     ELSE "required",
                                Base("Int"), FALSE, FALSE, ""),
                    RelationField("user", "required", "User", "", <<"userId">>, <<"id">>, FALSE) >>
                 \o DefectFields("Post", "User", D),
                 <<>>, DefectIndices("Post", D)) >>
        \o (IF <<"", "reserved_model">> \in D
            THEN <<Model("String", FALSE, <<Id>>, <<>>, <<>>)>> ELSE <<>>),
        << [name |-> "Role", values |-> <<"ADMIN", "USER">>] >>
        \o (IF <<"", "reserved_enum">> \in D
            THEN <<[name |-> "Int", values |-> <<"A">>]>> ELSE <<>>))

DefectModels == {DefectModel(D) : D \in SetsUpTo(AllDefects, MaxDefects)}

(* a connector without capabilities that rejects the field `legacy` and the *)
(* model `Post`                                                             *)
Picky == Datasource(TRUE, {}, NativeDefaults, {"legacy"}, {"Post"})

Init == StartOn(DefectModels, {NoSource, MySql, Picky})

Spec == Init /\ [][Next]_vars

-----------------------------------------------------------------------------
(* Vocabulary of the properties *)

Count(bag, P(_)) == Len(SelectSeq(bag, P))

Occurrences(bag, d) == Count(bag, LAMBDA x : x = d)

SameBag(a, b) ==
    /\ Len(a) = Len(b)
    /\ \A d \in Range(a) \cup Range(b) : Occurrences(a, d) = Occurrences(b, d)

(* validate has returned / post_standardisation_validate has returned *)
Pass1Done == pc = "validated"

Pass2Done == pc = "done"

(* What a rule yields over all models, in iteration order. *)
OverModels(Rule(_)) == Flatten([i \in 1..Len(schema.models) |-> Rule(schema.models[i])])

(* Every diagnostic the rules of pass 1 yield, rule by rule. *)
Produced1 ==
    Errs(validate_names(schema))
    \o Errs(validate_names_for_indexes(source, schema))
    \o OverModels(IdFieldArityErrors)
    \o OverModels(validate_model_has_strict_unique_criteria)
    \o OverModels(validate_model_name)
    \o OverModels(validate_relations_not_ambiguous)
    \o OverModels(LAMBDA m : validate_field_arities(source, m).bag)
    \o OverModels(LAMBDA m : validate_field_types(source, m).bag)
    \o OverModels(LAMBDA m : validate_field_connector_specific(source, m).bag)
    \o OverModels(LAMBDA m : validate_model_connector_specific(source, m).bag)
    \o OverModels(LAMBDA m : validate_enum_default_values(schema, m).bag)
    \o OverModels(LAMBDA m : validate_auto_increment(source, m).bag)
    \o OverModels(LAMBDA m : validate_base_fields_for_relation(m).bag)
    \o OverModels(LAMBDA m : validate_referenced_fields_for_relation(source, schema, m).bag)
    \o Flatten([i \in 1..Len(schema.enums) |-> validate_enum_name(schema.enums[i])])

Produced2 == OverModels(LAMBDA m : validate_relation_arguments_bla(schema, m))

(* The rule of the specification (R1..R13) a diagnostic of pass 1 is of. *)
Key(d) == IF d.msg = "" THEN d.kind ELSE d.msg

RuleKeys ==
    << {"The name of a {} must not start with a number."},
       {"MultipleIndexesWithSameName"},
       {"Fields that are marked as id must be required."},
       {"At most one field must be marked as the id field with the '@id' attribute.",
        "Each model must have at most one id criteria. You can't have '@id' and '@@id' at the same time.",
        "Each model must have at least one unique criteria that has only required fields. Either mark a single field with '@id', '@unique' or add a multi field criterion with '@@id([])' or '@@unique([])' to the model.{suffix}"},
       {"The model name '{}' is invalid. It is a reserved name. Please change it. Read more at https://pris.ly/d/naming-models",
        "The enum name '{}' is invalid. It is a reserved name. Please change it. Read more at https://www.prisma.io/docs/reference/tools-and-interfaces/prisma-schema/data-model#naming-enums"},
       {"Ambiguous relation detected. The fields '{}' and '{}' in model '{}' both refer to '{}'. Please provide different relation names for them by adding '@relation(<name>).",
        "Wrongly named relation detected. The fields '{}' and '{}' in model '{}' both use the same relation name. Please provide different relation names for them through '@relation(<name>).",
        "Unnamed self relation detected. The fields '{}', '{}' and '{}' in model '{}' have no relation name. Please provide a relation name for one of them by adding '@relation(<name>).",
        "Wrongly named self relation detected. The fields '{}', '{}' and '{}' in model '{}' have the same relation name. At most two relation fields can belong to the same relation and therefore have the same name. Please assign a different relation name to one of them.",
        "Ambiguous self relation detected. The fields '{}' and '{}' in model '{}' both refer to '{}'. If they are part of the same relation add the same relation name for them with '@relation(<name>)'."},
       {"ScalarListFieldsNotSupported"},
       {"Field '{}' in model '{}' can't be of type Json. The current connector does not support the Json type."},
       {"{connector.validate_field(field)}", "{connector.validate_model(model)}"},
       {"The defined default value is not a valid value of the enum specified for the field."},
       {"The 'autoincrement()' default value is used multiple times on this model even though the underlying datasource only supports one instance per table.",
        "The 'autoincrement()' default value is used on a non-id field even though the datasource does not support this.",
        "The 'autoincrement()' default value is used on a non-indexed field even though the datasource does not support this."},
       {"The argument fields must refer only to existing fields. The following fields do not exist in this model: {}",
        "The argument fields must refer only to scalar fields. But it is referencing the following relation fields: {}",
        "The relation field '{}' uses the scalar fields {}. At least one of those fields is optional. Hence the relation field must be optional as well.",
        "The relation field '{}' uses the scalar fields {}. All those fields are optional. Hence the relation field must be optional as well."},
       {"The argument 'references' must refer only to existing fields in the related model '{}'. The following fields do not exist in the related model: {}",
        "The argument 'references' must refer only to scalar fields in the related model '{}'. But it is referencing the following relation fields: {}",
        "The argument 'references' must refer to a unique criteria in the related model '{}'. But it is referencing the following fields that are not a unique criteria: {}",
        "The argument 'references' must refer to a unique criteria in the related model '{}' using the same order of fields. Please check the ordering in the following fields: '{}'.",
        "Many to many relations must always reference the id field of the related model. Change the argument 'references' to use the id field of the related model '{}'. But it is referencing the following fields that are not the id: {}",
        "You must specify the same number of fields in 'fields' and 'references'.",
        "The type of the field '{}' in the model '{}' is not matching the type of the referenced field '{}' in model '{}'."} >>

RuleOf(d) == CHOOSE r \in 1..Len(RuleKeys) : Key(d) \in RuleKeys[r]

IsRule(d, r) == Key(d) \in RuleKeys[r]

(* Where the entity a diagnostic blames stands in the iteration: the model *)
(* (enums after the models) and the field within it.                        *)
ModelPos(d) ==
    IF \E i \in 1..Len(schema.models) : schema.models[i].name = d.span.model
    THEN CHOOSE i \in 1..Len(schema.models) : schema.models[i].name = d.span.model
    ELSE Len(schema.models) + 1

FieldPos(d) ==
    LET owner == find_model(schema, d.span.model)
    IN  IF owner = <<>> \/ d.span.field = "" THEN 0
        ELSE CHOOSE i \in 1..Len(Head(owner).fields) : Head(owner).fields[i].name = d.span.field

-----------------------------------------------------------------------------
(* C1: each pass returns Ok(()) if and only if none of its rules produced  *)
(* an error for any model or enum, and otherwise Err(bag) where the bag     *)
(* holds every diagnostic every rule of the pass produced, each as often as *)
(* it was produced and nothing else.                                        *)
C1_ResultIsWhatTheRulesProduced ==
    /\ Pass1Done =>
          /\ result1.ok <=> Produced1 = <<>>
          /\ SameBag(result1.bag, Produced1)
    /\ Pass2Done =>
          /\ result2.ok <=> Produced2 = <<>>
          /\ SameBag(result2.bag, Produced2)

(* Both passes returned Err; pass 1 with diagnostics of two rules. *)
C1_Witness ==
    /\ Pass2Done
    /\ ~result1.ok /\ ~result2.ok
    /\ \E i, j \in 1..Len(result1.bag) : RuleOf(result1.bag[i]) # RuleOf(result1.bag[j])
    /\ Len(result2.bag) >= 2

(* The part of the bag a diagnostic belongs to: the diagnostics of the two *)
(* schema-wide rules (0), of the i-th model (i), of the enums (last).       *)
Group(d) == IF RuleOf(d) <= 2 THEN 0 ELSE ModelPos(d)

(* Iteration order within one rule and one group. *)
IterationPos(d) ==
    LET owner == find_model(schema, d.span.model)
        field == IF d.kind = "ConnectorError" /\ d.span.field = "" /\ owner # <<>>
                 THEN Len(Head(owner).fields) + 1
                 ELSE FieldPos(d)
    IN  <<ModelPos(d), field>>

NotAfter(p, q) == p[1] < q[1] \/ (p[1] = q[1] /\ p[2] <= q[2])

(* C2 as stated: in the bag of pass 1 no diagnostic of an earlier-listed   *)
(* rule appears after a diagnostic of a later-listed rule.                  *)
C2_OrderedByRule ==
    Pass1Done =>
        \A i, j \in 1..Len(result1.bag) :
            i < j => RuleOf(result1.bag[i]) <= RuleOf(result1.bag[j])

(* C2, amended: the bag of pass 1 holds the diagnostics of R1 and R2 first, *)
(* then one group per model in iteration order, then the diagnostics of the *)
(* enums; within one group the diagnostics are ordered by rule in the       *)
(* listed order, and within one rule by the iteration order of models and   *)
(* fields.                                                                  *)
C2_OrderedByModelThenRule ==
    Pass1Done =>
        \A i, j \in 1..Len(result1.bag) :
            i < j =>
                LET a == result1.bag[i]
                    b == result1.bag[j]
                IN  \/ Group(a) < Group(b)
                    \/ /\ Group(a) = Group(b)
                       /\ \/ RuleOf(a) < RuleOf(b)
                          \/ /\ RuleOf(a) = RuleOf(b)
                             /\ NotAfter(IterationPos(a), IterationPos(b))

(* A diagnostic of a later rule of the first model precedes a diagnostic   *)
(* of an earlier rule of the second model.                                  *)
C2_Witness ==
    /\ Pass1Done
    /\ \E i, j \in 1..Len(result1.bag) :
          /\ i < j
          /\ RuleOf(result1.bag[i]) > RuleOf(result1.bag[j])
          /\ Group(result1.bag[i]) = 1 /\ Group(result1.bag[j]) = 2

-----------------------------------------------------------------------------
(* Inputs: the two-sided relations of the tests on relation arguments       *)
(* (relations_new.rs, lines 196-217 and 399-717).                           *)
(*   Post     { id Int [@id], slug Int @unique, categoryId Int,             *)
(*              [categories Category.. @relation(fields, references)],      *)
(*              [@@id([id, slug])] }                                        *)
(*   Category { id Int @id, postId Int,                                     *)
(*              posts Post.. @relation(fields, references) }                *)
(* with the arity and the arguments of both relation fields left open, the  *)
(* id of Post single, composite or missing, Post ignored or not, and the    *)
(* field `categories` present or not.                                       *)

IdKinds == {"single", "composite", "none"}

PostModel(pid, ignored, categories) ==
    Model("Post", ignored,
          (IF pid = "none" THEN <<>>
           ELSE <<ScalarField("id", "required", Base("Int"), pid = "single", FALSE, "")>>)
          \o << ScalarField("slug", "required", Base("Int"), FALSE, TRUE, ""),
                ScalarField("categoryId", "required", Base("Int"), FALSE, FALSE, "") >>
          \o categories,
          IF pid = "composite" THEN <<"id", "slug">> ELSE <<>>,
          <<>>)

CategoryModel(posts) ==
    Model("Category", FALSE,
          << Id, ScalarField("postId", "required", Base("Int"), FALSE, FALSE, ""), posts >>,
          <<>>, <<>>)

TwoSidedModels ==
    { Datamodel(<< PostModel(pid, ignored, categories),
                   CategoryModel(RelationField("posts", ca, "Post", "", cf, cr, FALSE)) >>,
                <<>>)
      : pid \in IdKinds, ignored \in BOOLEAN,
        categories \in {<<>>}
            \cup { <<RelationField("categories", pa, "Category", "", pf, pr, FALSE)>>
                   : pa \in Arities, pf \in {<<>>, <<"categoryId">>},
                     pr \in {<<>>, <<"id">>} },
        ca \in Arities, cf \in {<<>>, <<"postId">>},
        cr \in {<<>>, <<"id">>, <<"slug">>, <<"nope">>} }

(* model User { id Int @id, friendId Int,                                   *)
(*              friend User.. @relation("Friends", fields, references),     *)
(*              friendOf User.. @relation("Friends") }   (lines 626-641)    *)
SelfRelationModels ==
    { Datamodel(<< Model("User", FALSE,
                         << Id,
                            ScalarField("friendId", "required", Base("Int"), FALSE, FALSE, ""),
                            RelationField("friend", a1, "User", "Friends",
                                          args[1], args[2], FALSE),
                            RelationField("friendOf", a2, "User", "Friends",
                                          <<>>, <<>>, FALSE) >>,
                         <<>>, <<>>) >>,
                <<>>)
      : a1 \in {"required", "optional"}, a2 \in {"required", "optional"},
        args \in {<< <<>>, <<>> >>, << <<"friendId">>, <<"id">> >>} }

InitRel == StartOn(TwoSidedModels \cup SelfRelationModels, {NoSource, Postgres})

SpecRel == InitRel /\ [][Next]_vars

-----------------------------------------------------------------------------
(* Vocabulary of the properties about relation fields *)

TYPE_MISMATCH ==
    "The type of the field '{}' in the model '{}' is not matching the type of the referenced field '{}' in model '{}'."

NOT_A_UNIQUE_CRITERIA ==
    "The argument 'references' must refer to a unique criteria in the related model '{}'. But it is referencing the following fields that are not a unique criteria: {}"

WRONG_ORDER ==
    "The argument 'references' must refer to a unique criteria in the related model '{}' using the same order of fields. Please check the ordering in the following fields: '{}'."

Models == Range(schema.models)

RelationFieldsOf(m) == Range(relation_fields(m))

(* The related model of a relation field; the data models drawn name only  *)
(* models that exist.                                                       *)
Related(f) == Head(find_model(schema, f.to))

(* The diagnostics of a bag that blame the field f of the model m. *)
DiagsAt(bag, m, f) == SelectSeq(bag, LAMBDA d : d.span = FieldSpan(m.name, f.name))

WithMsg(bag, msg) == SelectSeq(bag, LAMBDA d : d.msg = msg)

PosOf(m, f) == CHOOSE i \in 1..Len(m.fields) : m.fields[i] = f

(* The model's local bag errors_for_model when the referenced-fields rule  *)
(* starts: what R4..R12 have put into it.                                   *)
LocalBagBeforeReferencedFields(m) ==
    validate_model_has_strict_unique_criteria(m)
    \o validate_model_name(m)
    \o validate_relations_not_ambiguous(m)
    \o validate_field_arities(source, m).bag
    \o validate_field_types(source, m).bag
    \o validate_field_connector_specific(source, m).bag
    \o validate_model_connector_specific(source, m).bag
    \o validate_enum_default_values(schema, m).bag
    \o validate_auto_increment(source, m).bag
    \o validate_base_fields_for_relation(m).bag

(* The conditions of the three diagnostics, each on its own. *)
ReferencesResolve(f) ==
    /\ f.references # <<>>
    /\ \A i \in 1..Len(f.references) :
           find_scalar_field(Related(f), f.references[i]) # <<>>

UniqueCriterionViolated(f) ==
    /\ ReferencesResolve(f)
    /\ ~references_unique_criteria(Related(f), f.references)
    /\ must_reference_unique_criteria(source)

OrderViolated(f) ==
    /\ ReferencesResolve(f)
    /\ ~reference_order_correct(source, Related(f), f.references)

WrongTypes(m, f) ==
    fields_with_wrong_type(source, m, Related(f), f, f.fields, f.references)

(* An error of the referenced-fields rule was returned for an earlier      *)
(* relation field of the same model.                                        *)
EarlierReferencedFieldsError(m, f) ==
    \E i \in 1..Len(result1.bag) :
        /\ IsRule(result1.bag[i], 13)
        /\ result1.bag[i].span.model = m.name
        /\ FieldPos(result1.bag[i]) < PosOf(m, f)

(* C3 as stated: the three diagnostics of a model are suppressed whenever  *)
(* the model's local bag already contains an error of an earlier rule, and  *)
(* emitted when it contains none and the respective condition is violated.  *)
C3_SuppressedByLocalBag ==
    Pass1Done =>
        \A m \in Models : \A f \in RelationFieldsOf(m) :
            LET at == DiagsAt(result1.bag, m, f)
            IN  IF LocalBagBeforeReferencedFields(m) # <<>>
                THEN /\ WithMsg(at, TYPE_MISMATCH) = <<>>
                     /\ WithMsg(at, NOT_A_UNIQUE_CRITERIA) = <<>>
                     /\ WithMsg(at, WRONG_ORDER) = <<>>
                ELSE /\ WrongTypes(m, f) # <<>> => WithMsg(at, TYPE_MISMATCH) # <<>>
                     /\ UniqueCriterionViolated(f) => WithMsg(at, NOT_A_UNIQUE_CRITERIA) # <<>>
                     /\ OrderViolated(f) => WithMsg(at, WRONG_ORDER) # <<>>

(* C3, amended: the three diagnostics of a relation field are suppressed   *)
(* by the errors of the referenced-fields rule itself and by nothing else:  *)
(* the unique-criterion diagnostic is emitted iff its condition is violated *)
(* and the rule has recorded no error for an earlier relation field of the  *)
(* model; the reference-order diagnostic iff, in addition, the              *)
(* unique-criterion diagnostic is not emitted; the type-mismatch            *)
(* diagnostics iff a pair has mismatching types and the rule has recorded   *)
(* no other error for this or an earlier relation field of the model.       *)
(* Errors of R4..R12 in the model's local bag suppress none of them.        *)
C3_SuppressedByRuleBag ==
    Pass1Done =>
        \A m \in Models : \A f \in RelationFieldsOf(m) :
            LET at == DiagsAt(result1.bag, m, f)
                free == ~EarlierReferencedFieldsError(m, f)
                unique_due == free /\ UniqueCriterionViolated(f)
                order_due == free /\ ~unique_due /\ OrderViolated(f)
                others == SelectSeq(at, LAMBDA d : IsRule(d, 13) /\ d.msg # TYPE_MISMATCH)
                type_due == free /\ others = <<>> /\ WrongTypes(m, f) # <<>>
            IN  /\ Len(WithMsg(at, NOT_A_UNIQUE_CRITERIA)) = IF unique_due THEN 1 ELSE 0
                /\ Len(WithMsg(at, WRONG_ORDER)) = IF order_due THEN 1 ELSE 0
                /\ WithMsg(at, TYPE_MISMATCH) = IF type_due THEN WrongTypes(m, f) ELSE <<>>

(* The model's local bag holds an error of an earlier rule and the         *)
(* unique-criterion diagnostic of a relation field is emitted all the same. *)
C3_Witness ==
    /\ Pass1Done
    /\ \E m \in Models : \E f \in RelationFieldsOf(m) :
          /\ LocalBagBeforeReferencedFields(m) # <<>>
          /\ WithMsg(DiagsAt(result1.bag, m, f), NOT_A_UNIQUE_CRITERIA) # <<>>

-----------------------------------------------------------------------------
UNKNOWN_BASE_FIELDS ==
    "The argument fields must refer only to existing fields. The following fields do not exist in this model: {}"

DeclaredNames(m) == {m.fields[i].name : i \in 1..Len(m.fields)}

(* The names of the argument `fields` that the model does not declare. *)
UnknownBaseNames(m, f) == SelectSeq(f.fields, LAMBDA n : n \notin DeclaredNames(m))

(* The data model with the relation field f of the model m replaced by g. *)
WithField(datamodel, m, f, g) ==
    [datamodel EXCEPT !.models =
        [i \in 1..Len(datamodel.models) |->
            IF datamodel.models[i] # m THEN datamodel.models[i]
            ELSE [m EXCEPT !.fields =
                     [k \in 1..Len(m.fields) |-> IF m.fields[k] = f THEN g ELSE m.fields[k]]]]]

(* A many-to-many relation field that references something else than the  *)
(* single id field the related model has.                                   *)
ManyToManyViolated(f) ==
    /\ ReferencesResolve(f)
    /\ is_many_to_many(schema, f)
    /\ has_single_id_field(Related(f))
    /\ ~(Len(f.references) = 1
         /\ Head(find_scalar_field(Related(f), Head(f.references))).is_id)

(* The argument `references` of f is in order on its own. *)
ReferencesInOrder(f) ==
    \/ f.references = <<>>
    \/ /\ ReferencesResolve(f)
       /\ ~UniqueCriterionViolated(f)
       /\ ~OrderViolated(f)
       /\ ~ManyToManyViolated(f)

(* Nothing is wrong with the schema but the unknown names in `fields` of f: *)
(* `fields` names nothing else, `references` is in order and as long as     *)
(* `fields`, and the schema validates once the two arguments are dropped.   *)
OnlyUnknownBaseNamesWrong(m, f) ==
    /\ UnknownBaseNames(m, f) = f.fields
    /\ f.fields # <<>>
    /\ ReferencesInOrder(f)
    /\ f.references # <<>> => Len(f.references) = Len(f.fields)
    /\ validate(source, WithField(schema, m, f,
                    [f EXCEPT !.fields = <<>>, !.references = <<>>])) = <<>>

(* C4: when the argument `fields` of a relation field names fields the     *)
(* model does not declare, pass 1 returns exactly one Validation diagnostic *)
(* "The argument fields must refer only to existing fields. ..." for it,    *)
(* listing the unknown names in the order they are written, at the span of  *)
(* the relation field; it is the only diagnostic returned when nothing else *)
(* is wrong with the schema; and no such diagnostic is returned for a       *)
(* relation field whose `fields` names declared fields only.                *)
C4_UnknownBaseFields ==
    Pass1Done =>
        \A m \in Models : \A f \in RelationFieldsOf(m) :
            LET found == WithMsg(DiagsAt(result1.bag, m, f), UNKNOWN_BASE_FIELDS)
            IN  IF UnknownBaseNames(m, f) = <<>>
                THEN found = <<>>
                ELSE /\ Len(found) = 1
                     /\ found[1].kind = "Validation"
                     /\ found[1].names = UnknownBaseNames(m, f)
                     /\ found[1].span = FieldSpan(m.name, f.name)
                     /\ Count(result1.bag, LAMBDA d : d.msg = UNKNOWN_BASE_FIELDS
                                                      /\ d.names = UnknownBaseNames(m, f)) = 1
                     /\ OnlyUnknownBaseNamesWrong(m, f) => result1.bag = found

(* Two unknown names, written in an order that is not the sorted one, and  *)
(* nothing else wrong: the bag is the one diagnostic.                       *)
C4_Witness ==
    /\ Pass1Done
    /\ \E m \in Models : \E f \in RelationFieldsOf(m) :
          /\ f.fields = <<"zilch", "nope">>
          /\ OnlyUnknownBaseNamesWrong(m, f)
          /\ Len(result1.bag) = 1
          /\ result1.bag[1].names = <<"zilch", "nope">>

-----------------------------------------------------------------------------
AT_LEAST_ONE_OPTIONAL ==
    "The relation field '{}' uses the scalar fields {}. At least one of those fields is optional. Hence the relation field must be optional as well."

ALL_OPTIONAL ==
    "The relation field '{}' uses the scalar fields {}. All those fields are optional. Hence the relation field must be optional as well."

(* The scalar fields of the model m that the argument `fields` of f names. *)
NamedScalars(m, f) ==
    {x \in Range(m.fields) : x.kind = "scalar" /\ x.name \in Range(f.fields)}

SomeNamedScalarOptional(m, f) == \E x \in NamedScalars(m, f) : x.arity = "optional"

EveryNamedScalarOptional(m, f) == \A x \in NamedScalars(m, f) : x.arity = "optional"

C6_OnlyAllOptional ==
    Pass1Done =>
        \A m \in Models : \A f \in RelationFieldsOf(m) :
            (/\ f.arity = "required"
             /\ f.fields # <<>>
             /\ NamedScalars(m, f) # {}
             /\ Cardinality(NamedScalars(m, f)) = Len(f.fields)
             /\ EveryNamedScalarOptional(m, f))
            => LET at == DiagsAt(result1.bag, m, f)
               IN  /\ Len(WithMsg(at, ALL_OPTIONAL)) = 1
                   /\ WithMsg(at, AT_LEAST_ONE_OPTIONAL) = <<>>

-----------------------------------------------------------------------------
Min(a, b) == IF a <= b THEN a ELSE b

(* The field of the model m named n, whatever its kind. *)
FieldNamed(m, n) == CHOOSE x \in Range(m.fields) : x.name = n

(* The pair (fields[i], references[i]) of f resolves to two fields whose   *)
(* types do not match.                                                      *)
OffendingPair(m, f, i) ==
    /\ f.fields[i] \in DeclaredNames(m)
    /\ f.references[i] \in DeclaredNames(Related(f))
    /\ LET base == FieldNamed(m, f.fields[i]).tpe
           referenced == FieldNamed(Related(f), f.references[i]).tpe
       IN  /\ ~is_compatible_with(base, referenced)
           /\ ~(/\ source.present
                /\ native_type_of(source, base) # <<>>
                /\ native_type_of(source, base) = native_type_of(source, referenced))

OffendingPairs(m, f) ==
    SelectSeq([i \in 1..Min(Len(f.fields), Len(f.references)) |-> i],
              LAMBDA i : OffendingPair(m, f, i))

(* The diagnostics returned for the field f that are not type mismatches. *)
OtherErrorsAt(m, f) ==
    SelectSeq(DiagsAt(result1.bag, m, f), LAMBDA d : d.msg # TYPE_MISMATCH)

(* The type-mismatch diagnostics are, pair by pair, those of the offending *)
(* pairs of f.                                                              *)
OnePerOffendingPair(m, f, found) ==
    /\ Len(found) = Len(OffendingPairs(m, f))
    /\ \A k \in 1..Len(found) :
          /\ found[k].kind = "AttributeValidation"
          /\ found[k].attr = "relation"
          /\ found[k].args = << f.fields[OffendingPairs(m, f)[k]], m.name,
                                f.references[OffendingPairs(m, f)[k]], Related(f).name >>

(* C7 as stated: one type-mismatch diagnostic per offending pair when no   *)
(* other error was produced on that relation field, and none of them when   *)
(* some other error was produced on that relation field.                    *)
C7_SuppressedByAnyErrorOnField ==
    Pass1Done =>
        \A m \in Models : \A f \in RelationFieldsOf(m) :
            LET found == WithMsg(DiagsAt(result1.bag, m, f), TYPE_MISMATCH)
            IN  IF OtherErrorsAt(m, f) = <<>>
                THEN OnePerOffendingPair(m, f, found)
                ELSE found = <<>>

(* C7, amended: pass 1 returns one AttributeValidation diagnostic with     *)
(* attribute name 'relation' per offending pair of a relation field, in the *)
(* order of the pairs, when the referenced-fields rule has recorded no      *)
(* other error for this relation field or for an earlier relation field of  *)
(* the same model, and none of them otherwise; an error another rule        *)
(* produced on the relation field does not suppress them.                   *)
C7_SuppressedByReferencedFieldsErrors ==
    Pass1Done =>
        \A m \in Models : \A f \in RelationFieldsOf(m) :
            LET found == WithMsg(DiagsAt(result1.bag, m, f), TYPE_MISMATCH)
                blocked ==
                    \/ EarlierReferencedFieldsError(m, f)
                    \/ \E i \in 1..Len(OtherErrorsAt(m, f)) : IsRule(OtherErrorsAt(m, f)[i], 13)
            IN  IF blocked THEN found = <<>> ELSE OnePerOffendingPair(m, f, found)

(* Two offending pairs and nothing else recorded by the rule for the       *)
(* relation field: two diagnostics.                                         *)
C7_Witness ==
    /\ Pass1Done
    /\ \E m \in Models : \E f \in RelationFieldsOf(m) :
          /\ Len(OffendingPairs(m, f)) = 2
          /\ Len(WithMsg(DiagsAt(result1.bag, m, f), TYPE_MISMATCH)) = 2

-----------------------------------------------------------------------------
BASE_NOT_SCALAR ==
    "The argument fields must refer only to scalar fields. But it is referencing the following relation fields: {}"

RelationNames(m) == {x.name : x \in {y \in Range(m.fields) : y.kind = "relation"}}

(* The names of the argument `fields` of f that are relation fields of m. *)
RelationBaseNames(m, f) == SelectSeq(f.fields, LAMBDA n : n \in RelationNames(m))

(* The positions in a bag of the diagnostics with the message msg that     *)
(* blame the field f of the model m.                                        *)
PositionsAt(bag, m, f, msg) ==
    {i \in 1..Len(bag) : bag[i].msg = msg /\ bag[i].span = FieldSpan(m.name, f.name)}

(* The referenced-fields rule has recorded an error other than a type      *)
(* mismatch for f, or any error for an earlier relation field of the model. *)
TypeMismatchBlocked(m, f) ==
    \/ EarlierReferencedFieldsError(m, f)
    \/ \E i \in 1..Len(OtherErrorsAt(m, f)) : IsRule(OtherErrorsAt(m, f)[i], 13)

(* C8: when the argument `fields` of a relation field names a relation     *)
(* field of the owning model, pass 1 returns the Validation error "The      *)
(* argument fields must refer only to scalar fields. But it is referencing  *)
(* the following relation fields: <names>" for it, once, and after it the   *)
(* 'relation' AttributeValidation type-mismatch error of the pair the       *)
(* relation field is the base of: the base-field error does not suppress    *)
(* the type-mismatch error.  When nothing else is wrong the bag is these    *)
(* two, in this order.                                                      *)
C8_BaseFieldIsNotScalar ==
    Pass1Done =>
        \A m \in Models : \A f \in RelationFieldsOf(m) :
            RelationBaseNames(m, f) # <<>> =>
                LET base == PositionsAt(result1.bag, m, f, BASE_NOT_SCALAR)
                    mismatch == PositionsAt(result1.bag, m, f, TYPE_MISMATCH)
                IN  /\ Cardinality(base) = 1
                    /\ \A i \in base :
                          /\ result1.bag[i].kind = "Validation"
                          /\ result1.bag[i].names = RelationBaseNames(m, f)
                          /\ \A k \in mismatch : i < k
                    /\ \A p \in 1..Min(Len(f.fields), Len(f.references)) :
                          (/\ f.fields[p] \in RelationNames(m)
                           /\ f.references[p] \in DeclaredNames(Related(f))
                           /\ ~TypeMismatchBlocked(m, f))
                          => \E k \in mismatch :
                                 /\ result1.bag[k].kind = "AttributeValidation"
                                 /\ result1.bag[k].attr = "relation"
                                 /\ result1.bag[k].args =
                                        <<f.fields[p], m.name, f.references[p], Related(f).name>>
                    /\ (/\ Len(f.fields) = 1
                        /\ Len(f.references) = 1
                        /\ ReferencesInOrder(f)
                        /\ validate(source, WithField(schema, m, f,
                               [f EXCEPT !.fields = <<>>, !.references = <<>>])) = <<>>)
                       => /\ Len(result1.bag) = 2
                          /\ base = {1}
                          /\ mismatch = {2}

(* The schema of the test: `fields: [other], references: [id]`, nothing    *)
(* else wrong, and the bag is the two diagnostics in this order.            *)
C8_Witness ==
    /\ Pass1Done
    /\ \E m \in Models : \E f \in RelationFieldsOf(m) :
          /\ f.fields = <<"other">>
          /\ f.references = <<"id">>
          /\ "other" \in RelationNames(m)
          /\ Len(result1.bag) = 2
          /\ result1.bag[1].msg = BASE_NOT_SCALAR
          /\ result1.bag[1].names = <<"other">>
          /\ result1.bag[2].msg = TYPE_MISMATCH
          /\ result1.bag[2].args = <<"other", "Post", "id", "User">>

-----------------------------------------------------------------------------
(* Some loose unique criterion of the related model has the field names of *)
(* `references`, each as often, in whatever order.                          *)
MatchesLooseCriterion(f) ==
    \E i \in 1..Len(loose_unique_criterias(Related(f))) :
        SameBag(MapNames(loose_unique_criterias(Related(f))[i]), f.references)

SupportsNonUnique == source.present /\ "relations_over_non_unique_criteria" \in source.caps

UniqueCriterionReported(m, f) ==
    WithMsg(DiagsAt(result1.bag, m, f), NOT_A_UNIQUE_CRITERIA) # <<>>

(* C9 as stated: for a relation field whose `references` is not empty and  *)
(* names scalar fields of the related model only, the unique-criteria error *)
(* is reported if and only if no loose unique criterion has the names of    *)
(* `references` as a sorted list and no connector supports relations over   *)
(* non-unique criteria.                                                     *)
C9_ReportedIffNoCriterion ==
    Pass1Done =>
        \A m \in Models : \A f \in RelationFieldsOf(m) :
            ReferencesResolve(f) =>
                (UniqueCriterionReported(m, f)
                    <=> (~MatchesLooseCriterion(f) /\ ~SupportsNonUnique))

(* C9, amended: for a relation field whose `references` is not empty and   *)
(* names scalar fields of the related model only, and when the              *)
(* referenced-fields rule has recorded no error for an earlier relation     *)
(* field of the same model, pass 1 reports the unique-criteria error, once, *)
(* with the related model's name and the names as written, if and only if   *)
(* no loose unique criterion of the related model has the names of          *)
(* `references` compared as sorted lists, and either no datasource is       *)
(* configured or its connector does not support relations over non-unique   *)
(* criteria; after an error of an earlier relation field it is not          *)
(* reported.  The union of two separate criteria, [id, firstName], is an    *)
(* error, and none is reported on a connector that supports non-unique      *)
(* references.                                                              *)
C9_ReportedIffNoCriterionAndNoEarlierError ==
    Pass1Done =>
        \A m \in Models : \A f \in RelationFieldsOf(m) :
            ReferencesResolve(f) =>
                LET found == WithMsg(DiagsAt(result1.bag, m, f), NOT_A_UNIQUE_CRITERIA)
                IN  /\ (found # <<>>)
                           <=> /\ ~MatchesLooseCriterion(f)
                               /\ ~SupportsNonUnique
                               /\ ~EarlierReferencedFieldsError(m, f)
                    /\ Len(found) <= 1
                    /\ \A k \in 1..Len(found) :
                          /\ found[k].kind = "Validation"
                          /\ found[k].args = <<Related(f).name>>
                          /\ found[k].names = f.references
                    /\ (/\ Range(f.references) = {"id", "firstName"}
                        /\ Len(f.references) = 2
                        /\ Related(f).indices = <<>>
                        /\ ~EarlierReferencedFieldsError(m, f))
                       => (found # <<>> <=> ~SupportsNonUnique)

(* `references: [id, firstName]` where id is the id and firstName is       *)
(* unique on its own: reported.                                             *)
C9_Witness ==
    /\ Pass1Done
    /\ \E m \in Models : \E f \in RelationFieldsOf(m) :
          /\ f.references = <<"id", "firstName">>
          /\ Head(find_scalar_field(Related(f), "firstName")).is_unique
          /\ UniqueCriterionReported(m, f)

-----------------------------------------------------------------------------
DIFFERENT_NUMBER ==
    "You must specify the same number of fields in 'fields' and 'references'."

LengthsDiffer(f) ==
    /\ Len(f.fields) > 0
    /\ Len(f.references) > 0
    /\ Len(f.fields) # Len(f.references)

(* f with `fields` and `references` cut to the length of the shorter. *)
CutToShorter(f) ==
    LET n == Min(Len(f.fields), Len(f.references))
    IN  [f EXCEPT !.fields = SubSeq(f.fields, 1, n), !.references = SubSeq(f.references, 1, n)]

(* The different lengths of the two arguments of f are the only defect of  *)
(* the schema: both name required scalar fields only, `references` is in    *)
(* order, and the schema validates once the longer one is cut.              *)
OnlyLengthsWrong(m, f) ==
    /\ LengthsDiffer(f)
    /\ \A n \in Range(f.fields) :
           \E x \in Range(m.fields) :
               x.name = n /\ x.kind = "scalar" /\ x.arity = "required"
    /\ ReferencesInOrder(f)
    /\ validate(source, WithField(schema, m, f, CutToShorter(f))) = <<>>

(* C10: for every relation field, pass 1 returns the 'relation'            *)
(* AttributeValidation error "You must specify the same number of fields in *)
(* 'fields' and 'references'." for it, once, if and only if `fields` and    *)
(* `references` are both non-empty and of different lengths; when that is   *)
(* the only defect of the schema it is the only diagnostic returned.        *)
C10_DifferentNumber ==
    Pass1Done =>
        \A m \in Models : \A f \in RelationFieldsOf(m) :
            LET found == WithMsg(DiagsAt(result1.bag, m, f), DIFFERENT_NUMBER)
            IN  /\ (found # <<>>) <=> LengthsDiffer(f)
                /\ Len(found) <= 1
                /\ \A k \in 1..Len(found) :
                      found[k].kind = "AttributeValidation" /\ found[k].attr = "relation"
                /\ OnlyLengthsWrong(m, f) => result1.bag = found

(* Two `fields`, one `references`, nothing else wrong: the bag is the one  *)
(* diagnostic.                                                              *)
C10_Witness ==
    /\ Pass1Done
    /\ \E m \in Models : \E f \in RelationFieldsOf(m) :
          /\ Len(f.fields) = 2
          /\ Len(f.references) = 1
          /\ OnlyLengthsWrong(m, f)
          /\ Len(result1.bag) = 1
          /\ result1.bag[1].msg = DIFFERENT_NUMBER

-----------------------------------------------------------------------------
MANY_TO_MANY_NOT_ID ==
    "Many to many relations must always reference the id field of the related model. Change the argument 'references' to use the id field of the related model '{}'. But it is referencing the following fields that are not the id: {}"

(* The relation field on the other side of f, as a set of at most one. *)
RelatedFields(f) == Range(find_related_field(schema, f))

(* Both sides of the relation of f are lists. *)
BothSidesLists(f) == f.arity = "list" /\ \E g \in RelatedFields(f) : g.arity = "list"

(* The fields of a model that carry @id. *)
IdFieldsOf(m) == {x \in Range(m.fields) : x.kind = "scalar" /\ x.is_id}

(* `references` of f is the one-element list naming the id field of the    *)
(* related model.                                                           *)
ReferencesTheId(f) == \E x \in IdFieldsOf(Related(f)) : f.references = <<x.name>>

ManyToManyReported(m, f) ==
    WithMsg(DiagsAt(result1.bag, m, f), MANY_TO_MANY_NOT_ID) # <<>>

(* C11 as stated: for a list relation field whose related field is a list  *)
(* and whose related model has a single @id field, the many-to-many error   *)
(* is reported in pass 1 if and only if its `references` is not empty and   *)
(* not exactly the list of that id field.                                   *)
C11_ReportedIffNotTheId ==
    Pass1Done =>
        \A m \in Models : \A f \in RelationFieldsOf(m) :
            (BothSidesLists(f) /\ Cardinality(IdFieldsOf(Related(f))) = 1)
            => (ManyToManyReported(m, f)
                    <=> (f.references # <<>> /\ ~ReferencesTheId(f)))

(* C11, amended: for a list relation field whose related field is a list   *)
(* and whose related model has a single @id field, the many-to-many error   *)
(* is reported in pass 1, once, with the related model's name and the names *)
(* as written, if and only if its `references` is not empty, names scalar   *)
(* fields of the related model only, is not exactly the list of that id     *)
(* field, and the referenced-fields rule has recorded no error for an       *)
(* earlier relation field of the same model.  It is never reported for a    *)
(* field that is not a list, whose related field is not a list, or whose    *)
(* related model has no single @id field.                                   *)
C11_ReportedIffResolvedAndNotTheId ==
    Pass1Done =>
        \A m \in Models : \A f \in RelationFieldsOf(m) :
            LET found == WithMsg(DiagsAt(result1.bag, m, f), MANY_TO_MANY_NOT_ID)
            IN  /\ (found # <<>>)
                       <=> /\ BothSidesLists(f)
                           /\ Cardinality(IdFieldsOf(Related(f))) = 1
                           /\ ReferencesResolve(f)
                           /\ ~ReferencesTheId(f)
                           /\ ~EarlierReferencedFieldsError(m, f)
                /\ Len(found) <= 1
                /\ \A k \in 1..Len(found) :
                      /\ found[k].kind = "Validation"
                      /\ found[k].args = <<Related(f).name>>
                      /\ found[k].names = f.references

(* The schema of the test: `posts Post[] @relation(references: [slug])`    *)
(* against `categories Category[]`, Post with `id @id` and `slug @unique`.  *)
C11_Witness ==
    /\ Pass1Done
    /\ \E m \in Models : \E f \in RelationFieldsOf(m) :
          /\ BothSidesLists(f)
          /\ f.references = <<"slug">>
          /\ Head(find_scalar_field(Related(f), "slug")).is_unique
          /\ Cardinality(IdFieldsOf(Related(f))) = 1
          /\ ManyToManyReported(m, f)

-----------------------------------------------------------------------------
MANY_TO_MANY_WITHOUT_ID ==
    "The relation field '{}' on Model '{}' references '{}' which does not have an '@id' field. Models without '@id' can not be part of a many to many relation. Use an explicit intermediate Model to represent this relationship."

(* The diagnostics of pass 2 that blame the field f of the model m. *)
Pass2At(m, f) == DiagsAt(result2.bag, m, f)

OfKind(bag, kind) == SelectSeq(bag, LAMBDA d : d.kind = kind)

(* C12: for a many-to-many relation field (both sides lists) whose related *)
(* model has no single @id field (no id at all, or only a composite @@id),  *)
(* pass 1 does not report the "Many to many relations must always reference *)
(* the id field" error and pass 2 reports exactly one FieldValidation error *)
(* for the field, "The relation field '<f>' on Model '<M>' references '<R>' *)
(* which does not have an '@id' field. ..."; pass 2 reports it for no other *)
(* field, and the two many-to-many diagnostics are never both produced for  *)
(* the same field over the same data model.                                 *)
C12_ManyToManyWithoutId ==
    Pass2Done =>
        \A m \in Models : \A f \in RelationFieldsOf(m) :
            LET found == OfKind(Pass2At(m, f), "FieldValidation")
                without_id == BothSidesLists(f) /\ IdFieldsOf(Related(f)) = {}
            IN  /\ without_id =>
                      /\ ~ManyToManyReported(m, f)
                      /\ Len(found) = 1
                      /\ found[1].msg = MANY_TO_MANY_WITHOUT_ID
                      /\ found[1].args = <<f.name, m.name, Related(f).name>>
                      /\ found[1].model = m.name
                      /\ found[1].field = f.name
                /\ ~without_id => WithMsg(Pass2At(m, f), MANY_TO_MANY_WITHOUT_ID) = <<>>
                /\ ~(/\ ManyToManyReported(m, f)
                     /\ WithMsg(Pass2At(m, f), MANY_TO_MANY_WITHOUT_ID) # <<>>)

(* The schema of the test: Post with @@id([id, slug]), `categories` and    *)
(* `posts` both lists, `posts` referencing [slug]: pass 1 returns Ok and    *)
(* pass 2 the one diagnostic, for `posts`.                                  *)
C12_Witness ==
    /\ Pass2Done
    /\ result1.ok
    /\ Len(result2.bag) = 1
    /\ \E m \in Models : \E f \in RelationFieldsOf(m) :
          /\ BothSidesLists(f)
          /\ Related(f).id_fields = <<"id", "slug">>
          /\ f.references = <<"slug">>
          /\ result2.bag[1].msg = MANY_TO_MANY_WITHOUT_ID
          /\ result2.bag[1].span = FieldSpan(m.name, f.name)

-----------------------------------------------------------------------------
MISSING_OPPOSITE ==
    "The relation field '{}' on Model '{}' is missing an opposite relation field on the model '{}'. Either run 'prisma format' or add it manually."

(* C13: in pass 2 every relation field for which find_related_field        *)
(* returns nothing gets exactly one FieldValidation error "The relation     *)
(* field '<f>' on Model '<M>' is missing an opposite relation field on the  *)
(* model '<R>'. ..." at the span of the field and no other diagnostic: none *)
(* of the other checks of pass 2 is applied to it; a relation field that    *)
(* has a related field never gets this error.                               *)
C13_MissingOpposite ==
    Pass2Done =>
        \A m \in Models : \A f \in RelationFieldsOf(m) :
            IF RelatedFields(f) = {}
            THEN /\ Len(Pass2At(m, f)) = 1
                 /\ Pass2At(m, f)[1].kind = "FieldValidation"
                 /\ Pass2At(m, f)[1].msg = MISSING_OPPOSITE
                 /\ Pass2At(m, f)[1].args = <<f.name, m.name, f.to>>
                 /\ Pass2At(m, f)[1].model = m.name
                 /\ Pass2At(m, f)[1].field = f.name
                 /\ Count(result2.bag, LAMBDA d : d.msg = MISSING_OPPOSITE
                                                  /\ d.model = m.name
                                                  /\ d.field = f.name) = 1
            ELSE WithMsg(Pass2At(m, f), MISSING_OPPOSITE) = <<>>

(* A list field with arguments, pointing to an ignored model that has no   *)
(* relation field back: the other checks would each have an error for it,   *)
(* and the bag of pass 2 is the one diagnostic.                             *)
C13_Witness ==
    /\ Pass2Done
    /\ Len(result2.bag) = 1
    /\ result2.bag[1].msg = MISSING_OPPOSITE
    /\ \E m \in Models : \E f \in RelationFieldsOf(m) :
          /\ RelatedFields(f) = {}
          /\ f.arity = "list"
          /\ f.fields # <<>>
          /\ Related(f).is_ignored
          /\ IdFieldsOf(Related(f)) = {}

-----------------------------------------------------------------------------
MUST_SPECIFY_FIELDS ==
    "The relation field '{}' on Model '{}' must specify the 'fields' argument in the {} attribute. {}"

MUST_SPECIFY_REFERENCES ==
    "The relation field '{}' on Model '{}' must specify the 'references' argument in the {} attribute."

MUST_NOT_SPECIFY ==
    "The relation field '{}' on Model '{}' must not specify the 'fields' or 'references' argument in the {} attribute. You must only specify it on the opposite field '{}' on model '{}'."

(* How many diagnostics of pass 2 with the message msg blame the field f. *)
Pass2Count(m, f, msg) == Len(WithMsg(Pass2At(m, f), msg))

(* C14: in pass 2, for a one-to-many relation, the singular field (its     *)
(* related field is a list) gets the "must specify the 'fields' argument"   *)
(* error if its `fields` is empty and then the "must specify the            *)
(* 'references' argument" error if its `references` is empty, both in that  *)
(* order when both are empty; the list field (its related field is not a    *)
(* list) gets one "must not specify the 'fields' or 'references' argument"  *)
(* error if and only if either of its two lists is non-empty.               *)
C14_OneToMany ==
    Pass2Done =>
        \A m \in Models : \A f \in RelationFieldsOf(m) : \A g \in RelatedFields(f) :
            /\ (f.arity # "list" /\ g.arity = "list") =>
                  /\ Pass2Count(m, f, MUST_SPECIFY_FIELDS)
                        = (IF f.fields = <<>> THEN 1 ELSE 0)
                  /\ Pass2Count(m, f, MUST_SPECIFY_REFERENCES)
                        = (IF f.references = <<>> THEN 1 ELSE 0)
                  /\ \A i \in PositionsAt(result2.bag, m, f, MUST_SPECIFY_FIELDS) :
                        \A j \in PositionsAt(result2.bag, m, f, MUST_SPECIFY_REFERENCES) :
                            i < j
                  /\ \A d \in Range(WithMsg(Pass2At(m, f), MUST_SPECIFY_FIELDS)) :
                        /\ d.kind = "AttributeValidation"
                        /\ d.attr = "relation"
                        /\ d.args = <<f.name, m.name, "@relation", PRISMA_FORMAT_HINT>>
                  /\ \A d \in Range(WithMsg(Pass2At(m, f), MUST_SPECIFY_REFERENCES)) :
                        /\ d.kind = "AttributeValidation"
                        /\ d.attr = "relation"
                        /\ d.args = <<f.name, m.name, "@relation">>
            /\ (f.arity = "list" /\ g.arity # "list") =>
                  /\ Pass2Count(m, f, MUST_NOT_SPECIFY)
                        = (IF f.fields # <<>> \/ f.references # <<>> THEN 1 ELSE 0)
                  /\ \A d \in Range(WithMsg(Pass2At(m, f), MUST_NOT_SPECIFY)) :
                        /\ d.kind = "AttributeValidation"
                        /\ d.attr = "relation"
                        /\ d.args = <<f.name, m.name, "@relation", g.name, Related(f).name>>

(* A one-to-many relation whose singular side has neither argument and     *)
(* whose list side has `references` only: the two errors of the singular    *)
(* side in order, the one error of the list side.                           *)
C14_Witness ==
    /\ Pass2Done
    /\ \E m \in Models : \E f \in RelationFieldsOf(m) : \E g \in RelatedFields(f) :
          /\ f.arity # "list" /\ g.arity = "list"
          /\ f.fields = <<>> /\ f.references = <<>>
          /\ g.fields = <<>> /\ g.references # <<>>
          /\ Len(Pass2At(m, f)) = 2
          /\ Pass2At(m, f)[1].msg = MUST_SPECIFY_FIELDS
          /\ Pass2At(m, f)[2].msg = MUST_SPECIFY_REFERENCES
          /\ \E n \in Models : Pass2Count(n, g, MUST_NOT_SPECIFY) = 1

-----------------------------------------------------------------------------
FIELDS_ON_NEITHER ==
    "The relation fields '{}' on Model '{}' and '{}' on Model '{}' do not provide the 'fields' argument in the {} attribute. You have to provide it on one of the two fields."

REFERENCES_ON_NEITHER ==
    "The relation fields '{}' on Model '{}' and '{}' on Model '{}' do not provide the 'references' argument in the {} attribute. You have to provide it on one of the two fields."

REFERENCES_ON_BOTH ==
    "The relation fields '{}' on Model '{}' and '{}' on Model '{}' both provide the 'references' argument in the {} attribute. You have to provide it only on one of the two fields."

FIELDS_ON_BOTH ==
    "The relation fields '{}' on Model '{}' and '{}' on Model '{}' both provide the 'fields' argument in the {} attribute. You have to provide it only on one of the two fields."

(* The two-sided conditions of a one-to-one relation, in the order of the  *)
(* claim, each with its message.                                            *)
TwoSidedConditions(f, g) ==
    << [msg |-> FIELDS_ON_NEITHER,     holds |-> f.fields = <<>> /\ g.fields = <<>>],
       [msg |-> REFERENCES_ON_NEITHER, holds |-> f.references = <<>> /\ g.references = <<>>],
       [msg |-> REFERENCES_ON_BOTH,    holds |-> f.references # <<>> /\ g.references # <<>>],
       [msg |-> FIELDS_ON_BOTH,        holds |-> f.fields # <<>> /\ g.fields # <<>>] >>

TwoSidedMessages ==
    {FIELDS_ON_NEITHER, REFERENCES_ON_NEITHER, REFERENCES_ON_BOTH, FIELDS_ON_BOTH}

(* The messages of the two-sided conditions that hold, in order. *)
TwoSidedExpected(f, g) ==
    LET c == SelectSeq(TwoSidedConditions(f, g), LAMBDA x : x.holds)
    IN  [i \in 1..Len(c) |-> c[i].msg]

(* The position of a model in the data model. *)
ModelIndex(m) == CHOOSE i \in 1..Len(schema.models) : schema.models[i] = m

(* Both sides of the relation of f are singular. *)
BothSidesSingular(f) == f.arity # "list" /\ \E g \in RelatedFields(f) : g.arity # "list"

(* The diagnostics of pass 2 about the attribute `relation`. *)
Pass2AboutRelation == SelectSeq(result2.bag, LAMBDA d : d.attr = "relation")

(* C15: in pass 2, for a one-to-one relation (both sides singular) each of *)
(* the four two-sided conditions that holds - `fields` empty on both sides, *)
(* `references` empty on both sides, `references` non-empty on both sides,  *)
(* `fields` non-empty on both sides - yields one AttributeValidation error  *)
(* about `relation` on each of the two fields, per field in exactly that    *)
(* order; with `fields` and `references` set on both sides of a relation    *)
(* between two models, the diagnostics of pass 2 about `relation` are       *)
(* exactly four: (references on both, fields on both) for the side declared *)
(* first, then the same two for the other side. (A side whose related model *)
(* is ignored has the error about `ignore` besides.)                        *)
C15_OneToOneTwoSided ==
    Pass2Done =>
        \A m \in Models : \A f \in RelationFieldsOf(m) : \A g \in RelatedFields(f) :
            BothSidesSingular(f) =>
                LET mine == SelectSeq(Pass2At(m, f), LAMBDA d : d.msg \in TwoSidedMessages)
                    want == TwoSidedExpected(f, g)
                IN  /\ Len(mine) = Len(want)
                    /\ \A i \in 1..Len(want) :
                          /\ mine[i].msg = want[i]
                          /\ mine[i].kind = "AttributeValidation"
                          /\ mine[i].attr = "relation"
                          /\ mine[i].args = <<f.name, m.name, g.name, Related(f).name,
                                              "@relation">>
                    /\ \A n \in Models :
                          /\ n # m
                          /\ g \in RelationFieldsOf(n)
                          /\ ModelIndex(m) < ModelIndex(n)
                          /\ f.fields # <<>> /\ f.references # <<>>
                          /\ g.fields # <<>> /\ g.references # <<>>
                          => /\ Len(Pass2AboutRelation) = 4
                             /\ [i \in 1..4 |-> Pass2AboutRelation[i].msg]
                                   = <<REFERENCES_ON_BOTH, FIELDS_ON_BOTH,
                                       REFERENCES_ON_BOTH, FIELDS_ON_BOTH>>
                             /\ [i \in 1..4 |-> Pass2AboutRelation[i].span]
                                   = <<FieldSpan(m.name, f.name), FieldSpan(m.name, f.name),
                                       FieldSpan(n.name, g.name), FieldSpan(n.name, g.name)>>

(* `fields` and `references` on both sides of a one-to-one relation between *)
(* two models that are not ignored: the bag of pass 2 is the four errors.   *)
C15_Witness ==
    /\ Pass2Done
    /\ Len(result2.bag) = 4
    /\ \E m \in Models : \E f \in RelationFieldsOf(m) : \E g \in RelatedFields(f) :
          /\ BothSidesSingular(f)
          /\ Related(f) # m
          /\ f.fields # <<>> /\ f.references # <<>>
          /\ g.fields # <<>> /\ g.references # <<>>
          /\ [i \in 1..2 |-> Pass2At(m, f)[i].msg] = <<REFERENCES_ON_BOTH, FIELDS_ON_BOTH>>

(* Neither side of a one-to-one relation has an argument: the errors about *)
(* `fields` and about `references`, in that order, on either side.         *)
C15_WitnessNeither ==
    /\ Pass2Done
    /\ \E m \in Models : \E f \in RelationFieldsOf(m) : \E g \in RelatedFields(f) :
          /\ BothSidesSingular(f)
          /\ [i \in 1..Len(Pass2At(m, f)) |-> Pass2At(m, f)[i].msg]
                = <<FIELDS_ON_NEITHER, REFERENCES_ON_NEITHER>>

-----------------------------------------------------------------------------
FIELDS_HERE_REFERENCES_THERE ==
    "The relation field '{}' on Model '{}' provides the 'fields' argument in the {} attribute. And the related field '{}' on Model '{}' provides the 'references' argument. You must provide both arguments on the same side."

REFERENCES_HERE_FIELDS_THERE ==
    "The relation field '{}' on Model '{}' provides the 'references' argument in the {} attribute. And the related field '{}' on Model '{}' provides the 'fields' argument. You must provide both arguments on the same side."

SameSideMessages == {FIELDS_HERE_REFERENCES_THERE, REFERENCES_HERE_FIELDS_THERE}

(* One side of the relation holds `references` only, the other `fields`    *)
(* only.                                                                    *)
ArgumentsOnDifferentSides(f, g) ==
    \/ /\ f.fields = <<>> /\ f.references # <<>>
       /\ g.fields # <<>> /\ g.references = <<>>
    \/ /\ f.fields # <<>> /\ f.references = <<>>
       /\ g.fields = <<>> /\ g.references # <<>>

(* The diagnostics of pass 2 for the model m. *)
Pass2Of(m) == SelectSeq(result2.bag, LAMBDA d : d.span.model = m.name)

(* What pass 2 has recorded for the model m when it compares the sides of  *)
(* the one-to-one field f: the diagnostics of the relation fields declared  *)
(* before f and the error about `ignore` of f.                              *)
RecordedSoFar(m, f) ==
    SelectSeq(Pass2Of(m),
              LAMBDA d : \E k \in 1..Len(m.fields) :
                            /\ m.fields[k].name = d.span.field
                            /\ \/ k < PosOf(m, f)
                               \/ k = PosOf(m, f) /\ d.attr = "ignore")

(* C16: in pass 2, for a one-to-one relation between two different models  *)
(* where one side provides only `references` and the other only `fields`,   *)
(* each side gets exactly one "You must provide both arguments on the same  *)
(* side" error (the `references` variant on the side holding `references`,  *)
(* the `fields` variant on the side holding `fields`) and nothing else; the *)
(* check across the sides is made only if no error has been recorded so     *)
(* far: a side for which an error has been recorded does not get it, and    *)
(* such an error is always the first one pass 2 records for its model.      *)
C16_ArgumentsOnDifferentSides ==
    Pass2Done =>
        /\ \A m \in Models : \A f \in RelationFieldsOf(m) : \A g \in RelatedFields(f) :
              /\ BothSidesSingular(f)
              /\ Related(f) # m
              /\ ArgumentsOnDifferentSides(f, g)
              => IF RecordedSoFar(m, f) = <<>>
                 THEN /\ Len(Pass2At(m, f)) = 1
                      /\ Pass2At(m, f)[1].msg
                            = (IF f.references # <<>> THEN REFERENCES_HERE_FIELDS_THERE
                                                      ELSE FIELDS_HERE_REFERENCES_THERE)
                      /\ Pass2At(m, f)[1].kind = "AttributeValidation"
                      /\ Pass2At(m, f)[1].attr = "relation"
                      /\ Pass2At(m, f)[1].args
                            = <<f.name, m.name, "@relation", g.name, Related(f).name>>
                 ELSE \A d \in Range(Pass2At(m, f)) : d.msg \notin SameSideMessages
        /\ \A m \in Models : \A i \in 1..Len(Pass2Of(m)) :
              Pass2Of(m)[i].msg \in SameSideMessages => i = 1

(* `references` on one side and `fields` on the other side of a one-to-one *)
(* relation between two models: the bag of pass 2 is the two errors, one    *)
(* for each side.                                                           *)
C16_Witness ==
    /\ Pass2Done
    /\ Len(result2.bag) = 2
    /\ \E m \in Models : \E f \in RelationFieldsOf(m) : \E g \in RelatedFields(f) :
          /\ BothSidesSingular(f)
          /\ Related(f) # m
          /\ f.fields = <<>> /\ f.references # <<>>
          /\ g.fields # <<>> /\ g.references = <<>>
          /\ is_required(f)
          /\ Pass2At(m, f)[1].msg = REFERENCES_HERE_FIELDS_THERE
          /\ Pass2At(Related(f), g)[1].msg = FIELDS_HERE_REFERENCES_THERE

-----------------------------------------------------------------------------
REQUIRED_VIRTUAL ==
    "The relation field '{}' on Model '{}' is required. This is no longer valid because it's not possible to enforce this constraint on the database level. Please change the field type from '{}' to '{}?' to fix this."

(* f is the virtual side of a one-to-one relation whose arguments are all  *)
(* on the other side g.                                                     *)
VirtualSideOf(f, g) ==
    /\ f.arity # "list" /\ g.arity # "list"
    /\ f.fields = <<>> /\ f.references = <<>>
    /\ g.fields # <<>> /\ g.references # <<>>

(* The relation of two fields of one model. *)
SelfRelation(m, f, g) == f \in RelationFieldsOf(m) /\ g \in RelationFieldsOf(m)

(* What pass 2 says of the pair (virtual side f of m, side g of n holding  *)
(* the arguments), given whether f is to get the error.                     *)
RequiredErrorIs(m, f, n, g, expected) ==
    /\ Pass2Count(m, f, REQUIRED_VIRTUAL) = (IF expected THEN 1 ELSE 0)
    /\ \A d \in Range(WithMsg(Pass2At(m, f), REQUIRED_VIRTUAL)) :
          /\ d.kind = "AttributeValidation"
          /\ d.attr = "relation"
          /\ d.args = <<f.name, m.name, n.name, n.name>>
    /\ Pass2Count(n, g, REQUIRED_VIRTUAL) = 0
    /\ SelfRelation(m, f, g) =>
          Len(WithMsg(result2.bag, REQUIRED_VIRTUAL)) = (IF expected THEN 1 ELSE 0)

(* C17 as stated: in pass 2, for a one-to-one relation with `fields` and   *)
(* `references` on one side only, the side that does not hold them gets the *)
(* error "The relation field '<f>' on Model '<M>' is required. This is no   *)
(* longer valid ..." if and only if it is required, and the side holding    *)
(* them gets no such error, required or not; for a self relation of two     *)
(* fields exactly one such error is reported, on the virtual field.         *)
C17_RequiredVirtualSide ==
    Pass2Done =>
        \A m \in Models : \A f \in RelationFieldsOf(m) : \A g \in RelatedFields(f) :
            VirtualSideOf(f, g) =>
                RequiredErrorIs(m, f, Related(f), g, is_required(f))

(* C17 amended: the virtual side gets the error if and only if it is       *)
(* required and pass 2 has recorded no error for its model so far (none for *)
(* a relation field declared before it, and not the error about `ignore`    *)
(* for the field itself); the side holding the arguments gets no such       *)
(* error, required or not; for a self relation of two fields the error is   *)
(* then the only one of its kind, on the virtual field.                     *)
C17_RequiredVirtualSideUnlessRecorded ==
    Pass2Done =>
        \A m \in Models : \A f \in RelationFieldsOf(m) : \A g \in RelatedFields(f) :
            VirtualSideOf(f, g) =>
                RequiredErrorIs(m, f, Related(f), g,
                                is_required(f) /\ RecordedSoFar(m, f) = <<>>)

(* A self relation of two required fields, the arguments on the first: the *)
(* bag of pass 2 is the one error, for the virtual field.                   *)
C17_Witness ==
    /\ Pass2Done
    /\ Len(result2.bag) = 1
    /\ result2.bag[1].msg = REQUIRED_VIRTUAL
    /\ \E m \in Models : \E f \in RelationFieldsOf(m) : \E g \in RelatedFields(f) :
          /\ VirtualSideOf(f, g)
          /\ SelfRelation(m, f, g)
          /\ is_required(f) /\ is_required(g)
          /\ result2.bag[1].span = FieldSpan(m.name, f.name)

(* A required virtual side between two models, the side holding the        *)
(* arguments required too: the one error, for the virtual side.             *)
C17_WitnessTwoModels ==
    /\ Pass2Done
    /\ Len(result2.bag) = 1
    /\ result2.bag[1].msg = REQUIRED_VIRTUAL
    /\ \E m \in Models : \E f \in RelationFieldsOf(m) : \E g \in RelatedFields(f) :
          /\ VirtualSideOf(f, g)
          /\ Related(f) # m
          /\ is_required(f) /\ is_required(g)

-----------------------------------------------------------------------------
(* The schema of the test relation_happy_path: User with the list `posts`  *)
(* without arguments, Post with the required `user` over the required       *)
(* scalar userId of the type of User.id, a required @id in either model.    *)
relation_happy_path == DefectModel({})

(* The connector, if any, rejects no field and no model. *)
ConnectorAccepts == source.rejected_fields = {} /\ source.rejected_models = {}

(* C18: the well-formed one-to-many schema - list side without arguments,  *)
(* singular required side with fields [userId] and references [id], userId  *)
(* an existing required scalar of the type of the single @id field of the   *)
(* related model, a required id in every model - yields no diagnostic in    *)
(* pass 1 and none in pass 2 (both return Ok), with a connector that        *)
(* accepts its fields and models as well as with no datasource.             *)
C18_HappyPath ==
    schema = relation_happy_path /\ ConnectorAccepts =>
        /\ (Pass1Done \/ Pass2Done) => result1.ok /\ result1.bag = <<>>
        /\ Pass2Done => result2.ok /\ result2.bag = <<>>
        /\ all_errors = <<>>
        /\ pc # "aborted"

(* The happy path has gone through both passes without a datasource. *)
C18_Witness ==
    /\ Pass2Done
    /\ schema = relation_happy_path
    /\ ~source.present
    /\ result1.ok /\ result2.ok
    /\ find_related_field(schema, FieldNamed(find_model(schema, "Post")[1], "user"))
          = <<FieldNamed(find_model(schema, "User")[1], "posts")>>

(* ... and with a datasource. *)
C18_WitnessWithSource ==
    /\ Pass2Done
    /\ schema = relation_happy_path
    /\ source.present
    /\ result1.ok /\ result2.ok

-----------------------------------------------------------------------------
(* The diagnostics of pass 1 that ask for the relation field f to be       *)
(* optional.                                                                *)
MustBeOptionalAt(m, f) ==
    SelectSeq(DiagsAt(result1.bag, m, f),
              LAMBDA d : d.msg \in {AT_LEAST_ONE_OPTIONAL, ALL_OPTIONAL})

SomeNamedScalarRequired(m, f) == \E x \in NamedScalars(m, f) : x.arity = "required"

C19_WitnessAllRequired ==
    /\ Pass1Done
    /\ result1.ok
    /\ \E m \in Models : \E f \in RelationFieldsOf(m) :
          /\ f.arity = "required"
          /\ Len(f.fields) = 2
          /\ Cardinality(NamedScalars(m, f)) = 2
          /\ \A x \in NamedScalars(m, f) : x.arity = "required"

-----------------------------------------------------------------------------
(* The connector asks for the references in the order of a criterion. *)
StrictOrder == source.present /\ "relation_fields_in_arbitrary_order" \notin source.caps

(* A loose unique criterion of the related model lists exactly the names   *)
(* of `references`, in the same order and with the same length.            *)
ListedInOrder(f) ==
    \E i \in 1..Len(loose_unique_criterias(Related(f))) :
        MapNames(loose_unique_criterias(Related(f))[i]) = f.references

OrderReported(m, f) == WithMsg(DiagsAt(result1.bag, m, f), WRONG_ORDER)

(* With a single reference, with a connector that allows any order or with *)
(* no datasource the error about the order is never returned.              *)
NeverWithoutStrictOrder ==
    \A m \in Models : \A f \in RelationFieldsOf(m) :
        ~StrictOrder \/ Len(f.references) <= 1 => OrderReported(m, f) = <<>>

(* C20 as stated: when the connector disallows relation fields in          *)
(* arbitrary order and `references` of a relation field has more than one   *)
(* entry, pass 1 reports "The argument 'references' must refer to a unique  *)
(* criteria in the related model '<R>' using the same order of fields ..."  *)
(* if and only if no loose unique criterion of the related model lists      *)
(* exactly the names of `references` in the same order and with the same    *)
(* length; with a single reference, with a connector that allows arbitrary  *)
(* order or with no datasource the error is never reported.                 *)
C20_OrderReportedIffNotListed ==
    Pass1Done =>
        /\ \A m \in Models : \A f \in RelationFieldsOf(m) :
              StrictOrder /\ Len(f.references) > 1
              => (OrderReported(m, f) # <<>> <=> ~ListedInOrder(f))
        /\ NeverWithoutStrictOrder

(* C20 amended: under the same conditions the error is reported if and     *)
(* only if no loose unique criterion lists the names of `references` in     *)
(* order, and the names all resolve to scalar fields of the related model,  *)
(* and the referenced-fields rule has recorded no error for an earlier      *)
(* relation field of the model, and the error "... must refer to a unique   *)
(* criteria ..." is not due for the field (the names are those of a loose   *)
(* unique criterion in some order, or the connector supports relations      *)
(* over non-unique criteria); it is reported once, with the name of the     *)
(* related model and the names as written.                                  *)
C20_OrderReportedIffNothingElse ==
    Pass1Done =>
        /\ \A m \in Models : \A f \in RelationFieldsOf(m) :
              StrictOrder /\ Len(f.references) > 1
              => /\ (OrderReported(m, f) # <<>>)
                        <=> /\ ~ListedInOrder(f)
                            /\ ReferencesResolve(f)
                            /\ ~EarlierReferencedFieldsError(m, f)
                            /\ (MatchesLooseCriterion(f) \/ SupportsNonUnique)
                 /\ Len(OrderReported(m, f)) <= 1
                 /\ \A d \in Range(OrderReported(m, f)) :
                       /\ d.kind = "Validation"
                       /\ d.args = <<Related(f).name>>
                       /\ d.names = f.references
                       /\ ~UniqueCriterionReported(m, f)
        /\ NeverWithoutStrictOrder

(* The names of a compound unique criterion written in the other order,    *)
(* on a connector that asks for the order: the error is returned.           *)
C20_Witness ==
    /\ Pass1Done
    /\ StrictOrder
    /\ \E m \in Models : \E f \in RelationFieldsOf(m) :
          /\ f.references = <<"id", "firstName">>
          /\ MatchesLooseCriterion(f)
          /\ ~ListedInOrder(f)
          /\ Len(OrderReported(m, f)) = 1

(* The names in the order of the criterion: no error about the order. *)
C20_WitnessListed ==
    /\ Pass1Done
    /\ StrictOrder
    /\ \E m \in Models : \E f \in RelationFieldsOf(m) :
          /\ f.references = <<"firstName", "id">>
          /\ ListedInOrder(f)
          /\ DiagsAt(result1.bag, m, f) = <<>>

-----------------------------------------------------------------------------
(* Inputs: a model User with two to MaxRelations relation fields r1, r2,   *)
(* ..., each pointing to User itself, to Post or to Tag, unnamed or named   *)
(* "N", the first with or without arguments that name unknown fields; Post *)
(* with or without an ambiguous pair of its own; Tag.                       *)
MaxRelations == 4

RelationTargets == {"User", "Post", "Tag"}

RelationNamesDrawn == {"", "N"}

FieldNames == <<"r1", "r2", "r3", "r4", "r5">>

(* The relation fields r1..rn, without arguments. *)
DrawnRelations(n) ==
    { [i \in 1..n |-> RelationField(FieldNames[i], "optional", to[i], nm[i],
                                    <<>>, <<>>, FALSE)]
      : to \in [1..n -> RelationTargets], nm \in [1..n -> RelationNamesDrawn] }

(* `args` as `fields` and as `references` of the first of the fields. *)
WithArguments(rels, args) ==
    [i \in 1..Len(rels) |->
        IF i = 1 THEN [rels[i] EXCEPT !.fields = args, !.references = args] ELSE rels[i]]

AmbiguousPairOfPost ==
    << RelationField("author", "optional", "User", "", <<>>, <<>>, FALSE),
       RelationField("editor", "optional", "User", "", <<>>, <<>>, FALSE) >>

(* Either nothing else is wrong, or the first relation field of User names *)
(* an unknown field and Post holds an ambiguous pair of its own.           *)
OtherDefectsDrawn ==
    { [args |-> <<>>, others |-> <<>>],
      [args |-> <<"nope">>, others |-> AmbiguousPairOfPost] }

AmbiguityModels ==
    { Datamodel(<< Model("User", FALSE, <<Id>> \o WithArguments(rels, v.args), <<>>, <<>>),
                   Model("Post", FALSE, <<Id>> \o v.others, <<>>, <<>>),
                   Model("Tag", FALSE, <<Id>>, <<>>, <<>>) >>,
                <<>>)
      : rels \in UNION {DrawnRelations(n) : n \in 2..MaxRelations},
        v \in OtherDefectsDrawn }

InitAmb == StartOn(AmbiguityModels, {NoSource})

SpecAmb == InitAmb /\ [][Next]_vars

-----------------------------------------------------------------------------
AMBIGUOUS_RELATION ==
    "Ambiguous relation detected. The fields '{}' and '{}' in model '{}' both refer to '{}'. Please provide different relation names for them by adding '@relation(<name>)."

WRONGLY_NAMED_RELATION ==
    "Wrongly named relation detected. The fields '{}' and '{}' in model '{}' both use the same relation name. Please provide different relation names for them through '@relation(<name>)."

UNNAMED_SELF_RELATION ==
    "Unnamed self relation detected. The fields '{}', '{}' and '{}' in model '{}' have no relation name. Please provide a relation name for one of them by adding '@relation(<name>)."

WRONGLY_NAMED_SELF_RELATION ==
    "Wrongly named self relation detected. The fields '{}', '{}' and '{}' in model '{}' have the same relation name. At most two relation fields can belong to the same relation and therefore have the same name. Please assign a different relation name to one of them."

AMBIGUOUS_SELF_RELATION ==
    "Ambiguous self relation detected. The fields '{}' and '{}' in model '{}' both refer to '{}'. If they are part of the same relation add the same relation name for them with '@relation(<name>)'."

(* The errors of pass 1 about the relations of the model m being ambiguous. *)
AmbiguityOf(m) ==
    SelectSeq(result1.bag, LAMBDA d : IsRule(d, 6) /\ d.model = m.name)

(* The relation fields an error about ambiguity names. *)
FieldsNamedBy(d) ==
    IF d.msg \in {UNNAMED_SELF_RELATION, WRONGLY_NAMED_SELF_RELATION}
    THEN {d.args[1], d.args[2], d.args[3]}
    ELSE {d.args[1], d.args[2]}

(* Two distinct relation fields of m to the same model other than m, with  *)
(* equal relation names.                                                    *)
NonSelfConflict(m, a, b) ==
    /\ a # b
    /\ a.to = b.to /\ a.to # m.name
    /\ a.relname = b.relname

(* A third relation field of m to m itself with the name a and b share. *)
ThirdsOf(m, a, b) ==
    {c \in RelationFieldsOf(m) :
        c # a /\ c # b /\ c.to = m.name /\ c.relname = a.relname /\ a.relname = b.relname}

(* Two distinct relation fields of m to m itself that are both unnamed or  *)
(* share their name with a third.                                           *)
SelfConflict(m, a, b) ==
    /\ a # b
    /\ a.to = m.name /\ b.to = m.name
    /\ \/ a.relname = "" /\ b.relname = ""
       \/ ThirdsOf(m, a, b) # {}

Conflict(m, a, b) == NonSelfConflict(m, a, b) \/ SelfConflict(m, a, b)

(* (a, b) is met before (x, y) by the loops over the fields as declared. *)
MetNotAfter(m, a, b, x, y) ==
    \/ PosOf(m, a) < PosOf(m, x)
    \/ PosOf(m, a) = PosOf(m, x) /\ PosOf(m, b) <= PosOf(m, y)

FirstConflict(m, a, b) ==
    /\ Conflict(m, a, b)
    /\ \A x, y \in RelationFieldsOf(m) : Conflict(m, x, y) => MetNotAfter(m, a, b, x, y)

(* C21: within one model, two distinct relation fields that both point to  *)
(* the same model other than the owner and carry equal relation names make  *)
(* pass 1 return an error about ambiguity for the model, and they are       *)
(* reported (being the first conflict the rule meets) as "Ambiguous         *)
(* relation detected ..." when the shared name is empty and as "Wrongly     *)
(* named relation detected ..." when it is not; these two errors are given  *)
(* for such pairs only; two relation fields that point to different models, *)
(* or one to the owner and one to another model, are never named together   *)
(* by an error about ambiguity.                                             *)
C21_NonSelfAmbiguity ==
    Pass1Done =>
        \A m \in Models : \A a, b \in RelationFieldsOf(m) :
            /\ NonSelfConflict(m, a, b) => Len(AmbiguityOf(m)) = 1
            /\ NonSelfConflict(m, a, b) /\ FirstConflict(m, a, b)
                  => LET d == AmbiguityOf(m)[1]
                     IN  /\ d.kind = "ModelValidation"
                         /\ d.msg = (IF a.relname = "" THEN AMBIGUOUS_RELATION
                                                       ELSE WRONGLY_NAMED_RELATION)
                         /\ d.args = (IF a.relname = ""
                                      THEN <<a.name, b.name, m.name, a.to>>
                                      ELSE <<a.name, b.name, m.name>>)
                         /\ d.span = FieldSpan(m.name, a.name)
            /\ \A d \in Range(AmbiguityOf(m)) :
                  /\ (d.msg \in {AMBIGUOUS_RELATION, WRONGLY_NAMED_RELATION}
                      /\ d.args[1] = a.name /\ d.args[2] = b.name)
                        => /\ NonSelfConflict(m, a, b)
                           /\ d.msg = AMBIGUOUS_RELATION <=> a.relname = ""
                  /\ (a # b /\ a.to # b.to) => ~({a.name, b.name} \subseteq FieldsNamedBy(d))

(* Two named relation fields to the same other model, after a field to the *)
(* owner and one to a third model: the error names the two.                *)
C21_Witness ==
    /\ Pass1Done
    /\ \E m \in Models : \E a, b, c, e \in RelationFieldsOf(m) :
          /\ NonSelfConflict(m, a, b) /\ FirstConflict(m, a, b)
          /\ a.relname # ""
          /\ c.to = m.name /\ e.to \notin {m.name, a.to}
          /\ e.relname = a.relname
          /\ PosOf(m, c) < PosOf(m, a) /\ PosOf(m, e) < PosOf(m, a)
          /\ Len(AmbiguityOf(m)) = 1
          /\ AmbiguityOf(m)[1].msg = WRONGLY_NAMED_RELATION
          /\ AmbiguityOf(m)[1].args = <<a.name, b.name, m.name>>

-----------------------------------------------------------------------------
SelfMessages ==
    {AMBIGUOUS_SELF_RELATION, UNNAMED_SELF_RELATION, WRONGLY_NAMED_SELF_RELATION}

(* The relation fields of m that point to m. *)
SelfFieldsOf(m) == {f \in RelationFieldsOf(m) : f.to = m.name}

(* The third field the loop over field_c meets first. *)
FirstThird(m, a, b) ==
    CHOOSE c \in ThirdsOf(m, a, b) : \A x \in ThirdsOf(m, a, b) : PosOf(m, c) <= PosOf(m, x)

(* The error for a pair of fields with a third field of the same name. *)
NamesThree(m, a, b, d) ==
    /\ d.msg = (IF a.relname = "" THEN UNNAMED_SELF_RELATION
                                  ELSE WRONGLY_NAMED_SELF_RELATION)
    /\ d.args = <<a.name, b.name, FirstThird(m, a, b).name, m.name>>

(* The error for a pair of unnamed fields. *)
NamesTwo(m, a, b, d) ==
    /\ d.msg = AMBIGUOUS_SELF_RELATION
    /\ d.args = <<a.name, b.name, m.name, m.name>>

(* What holds of the self relations whatever the reading: a conflict gives *)
(* the model one error, an error about a self relation names the first      *)
(* conflict met, and two fields alone in sharing a name are accepted.       *)
SelfRelationsChecked(m) ==
    /\ \A a, b \in SelfFieldsOf(m) : SelfConflict(m, a, b) => Len(AmbiguityOf(m)) = 1
    /\ \A d \in Range(AmbiguityOf(m)) :
          d.msg \in SelfMessages =>
              /\ d.kind = "ModelValidation"
              /\ \E a, b \in SelfFieldsOf(m) :
                    /\ SelfConflict(m, a, b) /\ FirstConflict(m, a, b)
                    /\ d.args[1] = a.name /\ d.args[2] = b.name
                    /\ d.span = FieldSpan(m.name, a.name)
    /\ \A a, b \in SelfFieldsOf(m) :
          (a # b /\ SelfFieldsOf(m) = {a, b} /\ a.relname = b.relname /\ a.relname # "")
          => \A d \in Range(AmbiguityOf(m)) : d.msg \notin SelfMessages

(* C22 as stated: for two distinct relation fields of a model that both    *)
(* point to the owning model (the first conflict the rule meets), if both   *)
(* relation names are empty the model gets "Ambiguous self relation         *)
(* detected ..."; if a third distinct field to the owner shares their       *)
(* common name the model gets "Unnamed self relation detected ..." when the *)
(* name is empty and "Wrongly named self relation detected ..." when it is  *)
(* not; exactly two such fields sharing one non-empty name give no error.   *)
C22_SelfAmbiguity ==
    Pass1Done =>
        \A m \in Models :
            /\ SelfRelationsChecked(m)
            /\ \A a, b \in SelfFieldsOf(m) :
                  SelfConflict(m, a, b) /\ FirstConflict(m, a, b) =>
                      /\ (a.relname = "" /\ b.relname = "")
                            => NamesTwo(m, a, b, AmbiguityOf(m)[1])
                      /\ ThirdsOf(m, a, b) # {}
                            => NamesThree(m, a, b, AmbiguityOf(m)[1])

(* C22 amended: two unnamed fields to the owner give "Ambiguous self       *)
(* relation detected ..." only if no third field to the owner is unnamed    *)
(* as well; with a third field of their common name the model gets only     *)
(* "Unnamed self relation detected ..." (name empty) or "Wrongly named self *)
(* relation detected ..." (name not empty), naming the three fields; the    *)
(* rest as stated.                                                          *)
C22_SelfAmbiguityThirdFirst ==
    Pass1Done =>
        \A m \in Models :
            /\ SelfRelationsChecked(m)
            /\ \A a, b \in SelfFieldsOf(m) :
                  SelfConflict(m, a, b) /\ FirstConflict(m, a, b) =>
                      IF ThirdsOf(m, a, b) # {}
                      THEN NamesThree(m, a, b, AmbiguityOf(m)[1])
                      ELSE NamesTwo(m, a, b, AmbiguityOf(m)[1])

(* Three unnamed fields to the owner: the one error names the three. *)
C22_Witness ==
    /\ Pass1Done
    /\ \E m \in Models : \E a, b, c \in SelfFieldsOf(m) :
          /\ a.relname = "" /\ b.relname = "" /\ c.relname = ""
          /\ PosOf(m, a) < PosOf(m, b) /\ PosOf(m, b) < PosOf(m, c)
          /\ Len(AmbiguityOf(m)) = 1
          /\ AmbiguityOf(m)[1].msg = UNNAMED_SELF_RELATION
          /\ AmbiguityOf(m)[1].args = <<a.name, b.name, c.name, m.name>>

(* Two unnamed fields to the owner and no third. *)
C22_WitnessTwo ==
    /\ Pass1Done
    /\ \E m \in Models : \E a, b \in SelfFieldsOf(m) :
          /\ a # b /\ SelfFieldsOf(m) = {a, b}
          /\ Len(AmbiguityOf(m)) = 1
          /\ AmbiguityOf(m)[1].msg = AMBIGUOUS_SELF_RELATION

(* Two fields to the owner named alike, and a field elsewhere of that name: *)
(* pass 1 has no error for the model.                                       *)
C22_WitnessNamedPair ==
    /\ Pass1Done
    /\ \E m \in Models : \E a, b \in SelfFieldsOf(m) :
          /\ a # b /\ SelfFieldsOf(m) = {a, b}
          /\ a.relname = b.relname /\ a.relname # ""
          /\ \E e \in RelationFieldsOf(m) : e.to # m.name /\ e.relname = a.relname
          /\ AmbiguityOf(m) = <<>>

-----------------------------------------------------------------------------
UNKNOWN_REFERENCED_FIELDS ==
    "The argument 'references' must refer only to existing fields in the related model '{}'. The following fields do not exist in the related model: {}"

(* The relation fields of m that take part in a conflict. *)
ConflictingFieldsOf(m) ==
    {a \in RelationFieldsOf(m) : \E b \in RelationFieldsOf(m) : Conflict(m, a, b)}

(* The models whose relations are ambiguous. *)
AmbiguousModels == {m \in Models : ConflictingFieldsOf(m) # {}}

(* C23: the rule about ambiguous relations gives at most one diagnostic    *)
(* per model, however many conflicting pairs or triples the model holds: it *)
(* is the error of the first conflict met when iterating field a, then      *)
(* field b (then field c) in declaration order, its span is that of field   *)
(* a, the earliest declared relation field that takes part in any conflict; *)
(* the rule stops alone: the rules after it still give their errors for the *)
(* model (here the errors about unknown names in `fields` and `references`) *)
(* and the rule still gives its error for every other ambiguous model.      *)
C23_OneAmbiguityPerModel ==
    Pass1Done =>
        \A m \in Models :
            /\ Len(AmbiguityOf(m)) = (IF m \in AmbiguousModels THEN 1 ELSE 0)
            /\ \A a, b \in RelationFieldsOf(m) :
                  FirstConflict(m, a, b) =>
                      LET d == AmbiguityOf(m)[1]
                      IN  /\ d.args[1] = a.name /\ d.args[2] = b.name
                          /\ (SelfConflict(m, a, b) /\ ThirdsOf(m, a, b) # {})
                                => d.args[3] = FirstThird(m, a, b).name
                          /\ d.span = FieldSpan(m.name, a.name)
                          /\ \A x \in ConflictingFieldsOf(m) : PosOf(m, a) <= PosOf(m, x)
            /\ \A f \in RelationFieldsOf(m) :
                  /\ Len(WithMsg(DiagsAt(result1.bag, m, f), UNKNOWN_BASE_FIELDS))
                        = (IF UnknownBaseNames(m, f) # <<>> THEN 1 ELSE 0)
                  /\ Len(WithMsg(DiagsAt(result1.bag, m, f), UNKNOWN_REFERENCED_FIELDS))
                        = (IF \E i \in 1..Len(f.references) :
                                  f.references[i] \notin DeclaredNames(Related(f))
                           THEN 1 ELSE 0)

(* A model with four relation fields in two conflicts of different kinds,  *)
(* the first field with unknown names, and a second ambiguous model: one    *)
(* error about ambiguity for either model and the errors of the later rules. *)
C23_Witness ==
    /\ Pass1Done
    /\ Cardinality(AmbiguousModels) = 2
    /\ \E m \in AmbiguousModels : \E a, b, x, y \in RelationFieldsOf(m) :
          /\ FirstConflict(m, a, b) /\ SelfConflict(m, a, b)
          /\ NonSelfConflict(m, x, y)
          /\ a.fields # <<>>
          /\ Len(AmbiguityOf(m)) = 1
          /\ AmbiguityOf(m)[1].msg = AMBIGUOUS_SELF_RELATION
          /\ Len(DiagsAt(result1.bag, m, a)) = 3
          /\ Len(SelectSeq(result1.bag, LAMBDA d : IsRule(d, 6))) = 2

-----------------------------------------------------------------------------
(* Inputs: a model User, ignored or not, with two Int fields that may each *)
(* carry @id and be optional, a String field that may carry @unique and be  *)
(* optional, and with or without @@id([firstName, lastName]); a model Post, *)
(* ignored or not, with a required or optional @id.                        *)
IdentityModels ==
    { Datamodel(
        << Model("User", ignored,
                 << ScalarField("id", a1, Base("Int"), i1, FALSE, ""),
                    ScalarField("slug", a2, Base("Int"), i2, FALSE, ""),
                    ScalarField("firstName", a3, Base("String"), FALSE, u, ""),
                    ScalarField("lastName", "required", Base("String"), FALSE, FALSE, "") >>,
                 composite, <<>>),
           Model("Post", post_ignored,
                 << ScalarField("id", pa, Base("Int"), TRUE, FALSE, "") >>,
                 <<>>, <<>>) >>,
        <<>>)
      : ignored \in BOOLEAN, post_ignored \in BOOLEAN,
        a1 \in {"required", "optional"}, a2 \in {"required", "optional"},
        a3 \in {"required", "optional"}, pa \in {"required", "optional"},
        i1 \in BOOLEAN, i2 \in BOOLEAN, u \in BOOLEAN,
        composite \in {<<>>, <<"firstName", "lastName">>} }

InitId == StartOn(IdentityModels, {NoSource, MySql})

SpecId == InitId /\ [][Next]_vars

-----------------------------------------------------------------------------
MULTIPLE_SINGLE_ID ==
    "At most one field must be marked as the id field with the '@id' attribute."

MULTIPLE_ID_CRITERIA ==
    "Each model must have at most one id criteria. You can't have '@id' and '@@id' at the same time."

NO_STRICT_CRITERION ==
    "Each model must have at least one unique criteria that has only required fields. Either mark a single field with '@id', '@unique' or add a multi field criterion with '@@id([])' or '@@unique([])' to the model.{suffix}"

(* The errors of pass 1 about the identity and the unique criteria of m. *)
IdentityErrorsOf(m) ==
    SelectSeq(result1.bag, LAMBDA d : IsRule(d, 4) /\ d.model = m.name)

(* C24 as stated: the rule about the strict unique criterion applies to    *)
(* models that are not ignored only: an ignored model never gets any of its *)
(* three errors, whatever its id fields and unique criteria are.            *)
C24_IgnoredModelsAreExempt ==
    Pass1Done =>
        \A m \in Models : m.is_ignored => IdentityErrorsOf(m) = <<>>

(* C24 amended: an ignored model never gets the error "Each model must     *)
(* have at least one unique criteria that has only required fields ...";   *)
(* it does get "At most one field must be marked as the id field ..." when  *)
(* more than one of its fields carries @id and, otherwise, "Each model must *)
(* have at most one id criteria ..." when it has an @id field and an @@id.  *)
C24_IgnoredModelsMayLackACriterion ==
    Pass1Done =>
        \A m \in Models :
            m.is_ignored =>
                LET found == IdentityErrorsOf(m)
                IN  /\ WithMsg(found, NO_STRICT_CRITERION) = <<>>
                    /\ Len(WithMsg(found, MULTIPLE_SINGLE_ID))
                          = (IF Cardinality(IdFieldsOf(m)) > 1 THEN 1 ELSE 0)
                    /\ Len(WithMsg(found, MULTIPLE_ID_CRITERIA))
                          = (IF Cardinality(IdFieldsOf(m)) = 1 /\ m.id_fields # <<>>
                             THEN 1 ELSE 0)
                    /\ \A d \in Range(found) :
                          d.kind = "ModelValidation" /\ d.span = ModelSpan(m.name)

(* An ignored model without any id or unique field: pass 1 returns Ok. *)
C24_Witness ==
    /\ Pass1Done
    /\ result1.ok
    /\ \E m \in Models :
          /\ m.is_ignored
          /\ IdFieldsOf(m) = {}
          /\ m.id_fields = <<>>
          /\ \A f \in Range(m.fields) : ~f.is_unique

(* An ignored model with two @id fields: the error about them. *)
C24_WitnessTwoIds ==
    /\ Pass1Done
    /\ \E m \in Models :
          /\ m.is_ignored
          /\ Cardinality(IdFieldsOf(m)) = 2
          /\ WithMsg(IdentityErrorsOf(m), MULTIPLE_SINGLE_ID) # <<>>

-----------------------------------------------------------------------------
MUST_BE_REQUIRED == "Fields that are marked as id must be required."

(* The errors of pass 1 about the arity of the id fields of m. *)
IdArityErrorsOf(m) ==
    SelectSeq(result1.bag, LAMBDA d : d.msg = MUST_BE_REQUIRED /\ d.span.model = m.name)

OptionalIdFieldsOf(m) == {f \in IdFieldsOf(m) : f.arity # "required"}

IsIdArityError(d, m, f) ==
    /\ d.kind = "AttributeValidation"
    /\ d.attr = "id"
    /\ d.span = FieldAttrSpan(m.name, f.name, "id")

(* C25 as stated: for every scalar field that is marked as id and is not   *)
(* required, in a model that is not ignored, pass 1 emits one error on      *)
(* attribute id, "Fields that are marked as id must be required.": one per  *)
(* such field, two for a model with two optional id fields; none for the    *)
(* fields of ignored models.                                                *)
C25_OneErrorPerOptionalIdField ==
    Pass1Done =>
        \A m \in Models :
            /\ m.is_ignored => IdArityErrorsOf(m) = <<>>
            /\ ~m.is_ignored =>
                  /\ Len(IdArityErrorsOf(m)) = Cardinality(OptionalIdFieldsOf(m))
                  /\ \A f \in OptionalIdFieldsOf(m) :
                        \E d \in Range(IdArityErrorsOf(m)) : IsIdArityError(d, m, f)

(* C25 amended: for every model that is not ignored and has a scalar field *)
(* marked as id and not required, pass 1 emits exactly one such error, on   *)
(* the first of these fields in the order of the model's fields; a model    *)
(* with two optional id fields gets one; ignored models get none.           *)
C25_OneErrorPerModel ==
    Pass1Done =>
        \A m \in Models :
            /\ m.is_ignored \/ OptionalIdFieldsOf(m) = {} => IdArityErrorsOf(m) = <<>>
            /\ ~m.is_ignored /\ OptionalIdFieldsOf(m) # {} =>
                  /\ Len(IdArityErrorsOf(m)) = 1
                  /\ \E f \in OptionalIdFieldsOf(m) :
                        /\ \A g \in OptionalIdFieldsOf(m) : PosOf(m, f) <= PosOf(m, g)
                        /\ IsIdArityError(IdArityErrorsOf(m)[1], m, f)

(* A model with one optional id field and its one error, next to an        *)
(* ignored model with an optional id field and none.                       *)
C25_Witness ==
    /\ Pass1Done
    /\ \E m \in Models :
          /\ ~m.is_ignored
          /\ Cardinality(OptionalIdFieldsOf(m)) = 1
          /\ Len(IdArityErrorsOf(m)) = 1
    /\ \E m \in Models :
          /\ m.is_ignored
          /\ OptionalIdFieldsOf(m) # {}
          /\ IdArityErrorsOf(m) = <<>>

(* A model with two optional id fields and its one error. *)
C25_WitnessTwoOptionalIds ==
    /\ Pass1Done
    /\ \E m \in Models :
          /\ ~m.is_ignored
          /\ Cardinality(OptionalIdFieldsOf(m)) = 2
          /\ Len(IdArityErrorsOf(m)) = 1

-----------------------------------------------------------------------------
SeveralSingularIds(m) == Cardinality(IdFieldsOf(m)) > 1

SingularAndCompositeId(m) == IdFieldsOf(m) # {} /\ m.id_fields # <<>>

NoStrictCriterion(m) == strict_unique_criterias_disregarding_unsupported(m) = <<>>

IdentityMessagesOf(m) ==
    [i \in 1..Len(IdentityErrorsOf(m)) |-> IdentityErrorsOf(m)[i].msg]

(* C28 as stated: the rule contributes at most one diagnostic per model,   *)
(* by a fixed precedence: with more than one @id field only "At most one   *)
(* field must be marked as the id field ..." is reported; otherwise, with   *)
(* an @id field and an @@id, only "Each model must have at most one id      *)
(* criteria ..."; otherwise, without a strict unique criterion, only "Each  *)
(* model must have at least one unique criteria ..."; never two of them.    *)
C28_OneByPrecedence ==
    Pass1Done =>
        \A m \in Models :
            /\ Len(IdentityErrorsOf(m)) <= 1
            /\ SeveralSingularIds(m) => IdentityMessagesOf(m) = <<MULTIPLE_SINGLE_ID>>
            /\ ~SeveralSingularIds(m) /\ SingularAndCompositeId(m) =>
                  IdentityMessagesOf(m) = <<MULTIPLE_ID_CRITERIA>>
            /\ ~SeveralSingularIds(m) /\ ~SingularAndCompositeId(m) /\ NoStrictCriterion(m) =>
                  IdentityMessagesOf(m) = <<NO_STRICT_CRITERION>>

(* C28 amended: the same precedence, the third error being reported for a  *)
(* model without a strict unique criterion only when the model is not       *)
(* ignored; an ignored model in the third case gets no error of the rule.   *)
C28_OneByPrecedenceUnlessIgnored ==
    Pass1Done =>
        \A m \in Models :
            /\ Len(IdentityErrorsOf(m)) <= 1
            /\ SeveralSingularIds(m) => IdentityMessagesOf(m) = <<MULTIPLE_SINGLE_ID>>
            /\ ~SeveralSingularIds(m) /\ SingularAndCompositeId(m) =>
                  IdentityMessagesOf(m) = <<MULTIPLE_ID_CRITERIA>>
            /\ ~SeveralSingularIds(m) /\ ~SingularAndCompositeId(m) /\ NoStrictCriterion(m) =>
                  IdentityMessagesOf(m)
                      = (IF m.is_ignored THEN <<>> ELSE <<NO_STRICT_CRITERION>>)

(* A model with two @id fields, an @@id and an optional @unique field: all *)
(* three conditions could be tested, the first error alone is reported.    *)
C28_Witness ==
    /\ Pass1Done
    /\ \E m \in Models :
          /\ SeveralSingularIds(m)
          /\ m.id_fields # <<>>
          /\ IdentityMessagesOf(m) = <<MULTIPLE_SINGLE_ID>>

(* A model with an optional @id field and an @@id: the second error alone. *)
C28_WitnessSecond ==
    /\ Pass1Done
    /\ \E m \in Models :
          /\ ~SeveralSingularIds(m)
          /\ SingularAndCompositeId(m)
          /\ OptionalIdFieldsOf(m) # {}
          /\ IdentityMessagesOf(m) = <<MULTIPLE_ID_CRITERIA>>

(* A model with an optional @id field as its only criterion: the third. *)
C28_WitnessThird ==
    /\ Pass1Done
    /\ \E m \in Models :
          /\ ~m.is_ignored
          /\ ~SeveralSingularIds(m) /\ ~SingularAndCompositeId(m)
          /\ NoStrictCriterion(m)
          /\ IdentityMessagesOf(m) = <<NO_STRICT_CRITERION>>

-----------------------------------------------------------------------------
(* The named and unnamed indexes of all models, in iteration order, each   *)
(* with its position among the index attributes of its model.               *)
IndexOccurrences ==
    Flatten([i \in 1..Len(schema.models) |->
        [j \in 1..Len(schema.models[i].indices) |->
            [model |-> schema.models[i].name,
             name |-> schema.models[i].indices[j].name,
             n |-> j]]])

IndexErrorsOfPass1 == SelectSeq(result1.bag, LAMBDA d : IsRule(d, 2))

SupportsSameIndexName == Supports(source, "multiple_indexes_with_same_name")

(* The k-th index carries a name that an earlier index carries. *)
IsDuplicateIndex(k) ==
    /\ IndexOccurrences[k].name # ""
    /\ \E j \in 1..(k - 1) : IndexOccurrences[j].name = IndexOccurrences[k].name

(* C26: index names are accumulated over all models in iteration order;    *)
(* every named index whose name occurred on an earlier index gets exactly   *)
(* one MultipleIndexesWithSameName error, whose span is the attribute span  *)
(* of that later index itself; the first occurrence is never blamed; there  *)
(* is no such error when the connector supports several indexes with the    *)
(* same name, and unnamed indexes never conflict.                           *)
C26_DuplicateIndexIsBlamed ==
    Pass1Done =>
        [i \in 1..Len(IndexErrorsOfPass1) |->
            <<IndexErrorsOfPass1[i].args, IndexErrorsOfPass1[i].span>>]
        = Flatten([k \in 1..Len(IndexOccurrences) |->
            IF IsDuplicateIndex(k) /\ ~SupportsSameIndexName
            THEN << <<<<IndexOccurrences[k].name>>,
                      ModelAttrSpan(IndexOccurrences[k].model, "index",
                                    IndexOccurrences[k].n)>> >>
            ELSE <<>>])

-----------------------------------------------------------------------------
(* Inputs: a model User with the self relation "Friends" of the singular   *)
(* fields friend and friendOf and, declared after them, the singular field  *)
(* post; a model Post with the singular field user, the other side of post; *)
(* `fields` and `references` drawn on each of the four relation fields.     *)
SingularArities == {"required", "optional"}

SharedBagModels ==
    { Datamodel(
        << Model("User", FALSE,
                 << Id,
                    ScalarField("userId", "required", Base("Int"), FALSE, FALSE, ""),
                    ScalarField("postId", "required", Base("Int"), FALSE, FALSE, ""),
                    RelationField("friend", a1, "User", "Friends", f1, r1, FALSE),
                    RelationField("friendOf", "optional", "User", "Friends", f2, r2, FALSE),
                    RelationField("post", a3, "Post", "", f3, r3, FALSE) >>,
                 <<>>, <<>>),
           Model("Post", FALSE,
                 << Id,
                    ScalarField("userId", "required", Base("Int"), FALSE, FALSE, ""),
                    RelationField("user", a4, "User", "", f4, r4, FALSE) >>,
                 <<>>, <<>>) >>,
        <<>>)
      : a1 \in SingularArities, a3 \in SingularArities, a4 \in SingularArities,
        f1 \in {<<>>, <<"userId">>}, f2 \in {<<>>, <<"userId">>},
        f3 \in {<<>>, <<"postId">>}, f4 \in {<<>>, <<"userId">>},
        r1 \in {<<>>, <<"id">>}, r2 \in {<<>>, <<"id">>},
        r3 \in {<<>>, <<"id">>}, r4 \in {<<>>, <<"id">>} }

InitBag == StartOn(SharedBagModels, {NoSource})

SpecBag == InitBag /\ [][Next]_vars

-----------------------------------------------------------------------------
(* What pass 2 has recorded for the model m when it reaches the checks of  *)
(* the one-to-one field f that are made only without errors so far: the     *)
(* diagnostics of the relation fields declared before f, and for f itself   *)
(* the error about `ignore` and those of the two-sided conditions.          *)
RecordedBeforeTheGate(m, f) ==
    RecordedSoFar(m, f)
    \o SelectSeq(Pass2At(m, f), LAMBDA d : d.msg \in TwoSidedMessages)

(* The messages of the comparison of the sides that apply to f and g. *)
SameSideExpected(f, g) ==
    (IF f.fields # <<>> /\ g.references # <<>>
     THEN <<FIELDS_HERE_REFERENCES_THERE>> ELSE <<>>)
    \o (IF f.references # <<>> /\ g.fields # <<>>
        THEN <<REFERENCES_HERE_FIELDS_THERE>> ELSE <<>>)

SameSideReported(m, f) ==
    LET found == SelectSeq(Pass2At(m, f), LAMBDA d : d.msg \in SameSideMessages)
    IN  [i \in 1..Len(found) |-> found[i].msg]

(* Pass 2 has recorded an error for a model declared before m. *)
RecordedForAnEarlierModel(m) ==
    \E i \in 1..Len(result2.bag) : ModelPos(result2.bag[i]) < ModelIndex(m)

(* C27: the checks of pass 2 on a one-to-one relation that are made only   *)
(* without errors so far - the comparison of the sides and the required     *)
(* virtual side - see the diagnostics recorded for the same model in this   *)
(* pass and no others: whatever has been recorded for the other models,     *)
(* they are made for a field if and only if nothing has been recorded for   *)
(* its model; an error recorded for an earlier relation field of the model  *)
(* suppresses them for every later relation field of the model, so that a   *)
(* self relation with `fields` on one field and `references` on the other   *)
(* gets one error of the comparison, not two.                               *)
C27_GateSeesTheModelOnly ==
    Pass2Done =>
        \A m \in Models : \A f \in RelationFieldsOf(m) : \A g \in RelatedFields(f) :
            BothSidesSingular(f) =>
                /\ SameSideReported(m, f)
                      = (IF RecordedBeforeTheGate(m, f) = <<>>
                         THEN SameSideExpected(f, g) ELSE <<>>)
                /\ Pass2Count(m, f, REQUIRED_VIRTUAL)
                      = (IF /\ RecordedBeforeTheGate(m, f) = <<>>
                            /\ SameSideExpected(f, g) = <<>>
                            /\ is_required(f)
                            /\ g.references # <<>>
                         THEN 1 ELSE 0)
                /\ SelfRelation(m, f, g) /\ ArgumentsOnDifferentSides(f, g) =>
                      Len(SameSideReported(m, f)) + Len(SameSideReported(m, g)) <= 1

(* A self relation with `fields` on friend and `references` on friendOf:   *)
(* one error of the comparison, for friend, which also suppresses the       *)
(* comparison for the later field post; the model Post, declared after,     *)
(* still gets its own for user.                                             *)
C27_Witness ==
    /\ Pass2Done
    /\ \E m \in Models : \E f \in RelationFieldsOf(m) : \E g \in RelatedFields(f) :
          /\ SelfRelation(m, f, g)
          /\ ArgumentsOnDifferentSides(f, g)
          /\ SameSideReported(m, f) = <<FIELDS_HERE_REFERENCES_THERE>>
          /\ SameSideReported(m, g) = <<>>
          /\ Pass2Of(m) = Pass2At(m, f)
          /\ \E h \in RelationFieldsOf(m) : \E k \in RelatedFields(h) :
                /\ Related(h) # m
                /\ BothSidesSingular(h)
                /\ ArgumentsOnDifferentSides(h, k)
                /\ Pass2At(m, h) = <<>>
                /\ RecordedForAnEarlierModel(Related(h))
                /\ Len(SameSideReported(Related(h), k)) = 1

(* The required virtual side user of Post gets its error although pass 2   *)
(* has recorded errors for the model User before.                           *)
C27_WitnessRequired ==
    /\ Pass2Done
    /\ \E m \in Models : \E f \in RelationFieldsOf(m) : \E g \in RelatedFields(f) :
          /\ VirtualSideOf(f, g)
          /\ RecordedForAnEarlierModel(m)
          /\ Pass2Count(m, f, REQUIRED_VIRTUAL) = 1

-----------------------------------------------------------------------------
REFERENCES_RELATION_FIELDS ==
    "The argument 'references' must refer only to scalar fields in the related model '{}'. But it is referencing the following relation fields: {}"

(* The diagnostics of the referenced-fields rule for the model m, in the   *)
(* order in which the rule has recorded them.                               *)
ReferencedFieldsErrorsOf(m) ==
    SelectSeq(result1.bag, LAMBDA d : IsRule(d, 13) /\ d.span.model = m.name)

(* The diagnostics the rule makes only while its bag is empty. *)
GatedMessages == {NOT_A_UNIQUE_CRITERIA, WRONG_ORDER, MANY_TO_MANY_NOT_ID, TYPE_MISMATCH}

(* The type-mismatch diagnostics of one relation field are recorded        *)
(* together, one for each offending pair.                                   *)
SameBatch(d, e) ==
    d.msg = TYPE_MISMATCH /\ e.msg = TYPE_MISMATCH /\ d.span = e.span

(* The diagnostics that are not conditioned on the bag are returned for    *)
(* every relation field of m to which they apply.                           *)
UngatedAreAlwaysReported(m) ==
    \A f \in RelationFieldsOf(m) :
        LET at == DiagsAt(result1.bag, m, f)
        IN  /\ Len(WithMsg(at, UNKNOWN_REFERENCED_FIELDS))
                  = (IF \E i \in 1..Len(f.references) :
                            f.references[i] \notin DeclaredNames(Related(f))
                     THEN 1 ELSE 0)
            /\ Len(WithMsg(at, REFERENCES_RELATION_FIELDS))
                  = (IF \E i \in 1..Len(f.references) :
                            f.references[i] \in RelationNames(Related(f))
                     THEN 1 ELSE 0)
            /\ Len(WithMsg(at, DIFFERENT_NUMBER)) = (IF LengthsDiffer(f) THEN 1 ELSE 0)

(* The gated diagnostics are returned, whatever the other rules have put   *)
(* into the bag of the model and whatever has been recorded for the other   *)
(* models, for the first relation field of m the rule has an error for.     *)
OtherRulesNeverGate(m) ==
    \A f \in RelationFieldsOf(m) :
        LET at == DiagsAt(result1.bag, m, f)
        IN  ~EarlierReferencedFieldsError(m, f) =>
                /\ UniqueCriterionViolated(f) => WithMsg(at, NOT_A_UNIQUE_CRITERIA) # <<>>
                /\ OrderViolated(f) /\ ~UniqueCriterionViolated(f) =>
                      WithMsg(at, WRONG_ORDER) # <<>>
                /\ WrongTypes(m, f) # <<>>
                   /\ (\A d \in Range(at) : IsRule(d, 13) => d.msg = TYPE_MISMATCH)
                   => WithMsg(at, TYPE_MISMATCH) # <<>>

(* C29 as stated: the bag of the referenced-fields rule of pass 1 is       *)
(* shared by all relation fields of one model: once the rule has recorded   *)
(* any error for a relation field, it emits no unique-criterion,            *)
(* reference-order, many-to-many or type-mismatch diagnostic for that field *)
(* or for a later relation field of the model, while it still emits the     *)
(* unknown-reference, relation-field-reference and length-mismatch errors   *)
(* for later fields; errors of the other rules and of the other models      *)
(* never gate these checks.                                                 *)
C29_NothingGatedAfterAnError ==
    Pass1Done =>
        \A m \in Models :
            LET recorded == ReferencedFieldsErrorsOf(m)
            IN  /\ \A j \in 1..Len(recorded) : \A i \in 1..(j - 1) :
                      recorded[j].msg \in GatedMessages =>
                          SameBatch(recorded[i], recorded[j])
                /\ UngatedAreAlwaysReported(m)
                /\ OtherRulesNeverGate(m)

(* C29 amended: the same, except that the many-to-many diagnostic is       *)
(* emitted for a relation field right after the unique-criterion or         *)
(* reference-order error of that same field, when that error is the first   *)
(* one the rule records for the model: the three of them stand behind one   *)
(* test of the bag.                                                         *)
C29_NothingGatedAfterAnEarlierError ==
    Pass1Done =>
        \A m \in Models :
            LET recorded == ReferencedFieldsErrorsOf(m)
            IN  /\ \A j \in 1..Len(recorded) : \A i \in 1..(j - 1) :
                      recorded[j].msg \in GatedMessages =>
                          \/ SameBatch(recorded[i], recorded[j])
                          \/ /\ recorded[j].msg = MANY_TO_MANY_NOT_ID
                             /\ recorded[i].msg \in {NOT_A_UNIQUE_CRITERIA, WRONG_ORDER}
                             /\ recorded[i].span = recorded[j].span
                             /\ i = 1 /\ j = 2
                /\ UngatedAreAlwaysReported(m)
                /\ OtherRulesNeverGate(m)

(* The relation field `other` refers to an unknown field; the later field  *)
(* `user` of the same model, whose `references` is no unique criterion and  *)
(* as long as `fields` plus one, gets the length-mismatch error and no      *)
(* unique-criterion error.                                                  *)
C29_Witness ==
    /\ Pass1Done
    /\ \E m \in Models : \E f \in RelationFieldsOf(m) : \E g \in RelationFieldsOf(m) :
          /\ PosOf(m, f) < PosOf(m, g)
          /\ WithMsg(DiagsAt(result1.bag, m, f), UNKNOWN_REFERENCED_FIELDS) # <<>>
          /\ UniqueCriterionViolated(g)
          /\ LengthsDiffer(g)
          /\ WithMsg(DiagsAt(result1.bag, m, g), NOT_A_UNIQUE_CRITERIA) = <<>>
          /\ WithMsg(DiagsAt(result1.bag, m, g), DIFFERENT_NUMBER) # <<>>

(* The many-to-many diagnostic after the unique-criterion error of the     *)
(* same relation field.                                                     *)
C29_WitnessManyToMany ==
    /\ Pass1Done
    /\ \E m \in Models :
          /\ Len(ReferencedFieldsErrorsOf(m)) = 2
          /\ ReferencedFieldsErrorsOf(m)[1].msg = NOT_A_UNIQUE_CRITERIA
          /\ ReferencedFieldsErrorsOf(m)[2].msg = MANY_TO_MANY_NOT_ID

-----------------------------------------------------------------------------
(* The referenced-fields rule reaches the unique-criteria block of the     *)
(* relation field f of m with an empty bag: it has recorded no error for an *)
(* earlier relation field of m, and none about the names in `references`    *)
(* for f.                                                                   *)
BlockReached(m, f) ==
    /\ f.references # <<>>
    /\ ~EarlierReferencedFieldsError(m, f)
    /\ WithMsg(DiagsAt(result1.bag, m, f), UNKNOWN_REFERENCED_FIELDS) = <<>>
    /\ WithMsg(DiagsAt(result1.bag, m, f), REFERENCES_RELATION_FIELDS) = <<>>

(* C30: the lookup without a check in the many-to-many test cannot fail:   *)
(* whenever the referenced-fields rule evaluates the test of the single     *)
(* reference against the id (`references` has exactly one name and the rule *)
(* has recorded no error), that name is a scalar field of the related       *)
(* model, in every data model whose fields are scalar fields and relation   *)
(* fields; pass 1 never aborts there, not for a reference to an unknown     *)
(* name and not for a reference to a relation field.                        *)
C30_LookupCannotFail ==
    /\ pc # "aborted"
    /\ ~Aborts(all_errors)
    /\ \A m \in Models : \A f \in Range(m.fields) : f.kind \in {"scalar", "relation"}
    /\ Pass1Done =>
          /\ ~Aborts(result1.bag)
          /\ \A m \in Models : \A f \in RelationFieldsOf(m) :
                Len(f.references) = 1 /\ BlockReached(m, f) =>
                    find_scalar_field(Related(f), f.references[1]) # <<>>

(* A single reference to a scalar field that is not the id, on a           *)
(* many-to-many field, the bag empty: the test is made and the many-to-many *)
(* error returned.                                                          *)
C30_Witness ==
    /\ Pass1Done
    /\ \E m \in Models : \E f \in RelationFieldsOf(m) :
          /\ Len(f.references) = 1
          /\ BlockReached(m, f)
          /\ ~Head(find_scalar_field(Related(f), f.references[1])).is_id
          /\ ManyToManyReported(m, f)

(* A single reference to an unknown name, and one to a relation field, on  *)
(* the first relation field of a model: pass 1 returns the respective       *)
(* error.                                                                   *)
C30_WitnessUnknown ==
    /\ Pass1Done
    /\ \E m \in Models : \E f \in RelationFieldsOf(m) :
          /\ Len(f.references) = 1
          /\ ~EarlierReferencedFieldsError(m, f)
          /\ find_field(Related(f), f.references[1]) = <<>>
          /\ WithMsg(DiagsAt(result1.bag, m, f), UNKNOWN_REFERENCED_FIELDS) # <<>>

C30_WitnessRelationField ==
    /\ Pass1Done
    /\ \E m \in Models : \E f \in RelationFieldsOf(m) :
          /\ Len(f.references) = 1
          /\ ~EarlierReferencedFieldsError(m, f)
          /\ find_relation_field(Related(f), f.references[1]) # <<>>
          /\ WithMsg(DiagsAt(result1.bag, m, f), REFERENCES_RELATION_FIELDS) # <<>>

====
